---- MODULE Spec2Model ----
(***************************************************************************)
(* Model of the recommendation engine of conversion_optimizer.py:          *)
(* ConversionOptimizer.analyze_page evaluates 14 rules over a page_data    *)
(* dict, appending OptimizationRecommendation objects to                   *)
(* self.recommendations, and _generate_report aggregates them.             *)
(* Further specifications cover calls whose page_data omits keys or holds  *)
(* None (SpecOptional), several calls on one instance (SpecSeq), two       *)
(* threads (SpecConc) and the /analyze handler of web_interface.py         *)
(* (SpecWeb).                                                              *)
(*                                                                         *)
(* Text is modelled as a sequence of one-character strings so that         *)
(* str.lower() and the substring test `k in s` are computed, not assumed.  *)
(* load_time is in tenths of a second (2.5 s = 25, 3 s = 30).              *)
(* A Python dict is a sequence of <<key, value>> pairs in insertion order. *)
(***************************************************************************)
EXTENDS Integers, Sequences, FiniteSets, TLC

VARIABLES
    recommendations,  \* self.recommendations of the ConversionOptimizer instance
    page_data,        \* the page_data argument of the call in progress
    pc,               \* position of the call inside analyze_page
    report,           \* the value returned by the call (meaningful when pc = "done")
    evaluated,        \* history: the rule numbers evaluated so far in this call
    none_keys,        \* the keys of page_data whose value is None
    exception,        \* the exception the call raised (meaningful when pc = "raised")
    call,             \* the method the caller invoked on the instance
    earlier,          \* history: the earlier calls on this instance, oldest first
    other,            \* a second thread calling analyze_page
    http,             \* the /analyze request in progress and its response
    cli               \* the command-line program in progress: demo.py or __main__

vars == <<recommendations, page_data, pc, report, evaluated, none_keys, exception, call, earlier, other, http, cli>>

-----------------------------------------------------------------------------
(* Bounds of the model *)

\* content is built from at most MaxFrags text fragments
MaxFrags == 3
\* datetime.now() returns one of the instants 1..MaxTime
MaxTime == 2

-----------------------------------------------------------------------------
(* Enumerations: member name |-> value *)

Priority ==
    [HIGH |-> "High", MEDIUM |-> "Medium", LOW |-> "Low"]

Category ==
    [TRUST_CREDIBILITY |-> "Trust & Credibility",
     UX |-> "User Experience",
     PRICING_VALUE |-> "Pricing & Value",
     SOCIAL_PROOF |-> "Social Proof",
     CTA |-> "Call to Action",
     CONTENT_QUALITY |-> "Content Quality",
     TECHNICAL |-> "Technical",
     OVERALL |-> "Overall Performance"]

\* the dataclass constructor; code_example defaults to None
OptimizationRecommendation(category, priority, title, description, impact, implementation, estimated_improvement, code_example) ==
    [category |-> category, priority |-> priority, title |-> title,
     description |-> description, impact |-> impact,
     implementation |-> implementation,
     estimated_improvement |-> estimated_improvement,
     code_example |-> code_example]

None == "None"

-----------------------------------------------------------------------------
(* Text: str.lower() and the substring test *)

UpperToLower ==
    [A |-> "a", B |-> "b", C |-> "c", D |-> "d", E |-> "e", F |-> "f", G |-> "g",
     H |-> "h", I |-> "i", J |-> "j", K |-> "k", L |-> "l", M |-> "m", N |-> "n",
     O |-> "o", P |-> "p", Q |-> "q", R |-> "r", S |-> "s", T |-> "t", U |-> "u",
     V |-> "v", W |-> "w", X |-> "x", Y |-> "y", Z |-> "z"]

\* s.lower()
lower(s) ==
    [i \in 1..Len(s) |-> IF s[i] \in DOMAIN UpperToLower THEN UpperToLower[s[i]] ELSE s[i]]

\* k in s, for strings
In(k, s) ==
    \E i \in 0..(Len(s) - Len(k)) : \A j \in 1..Len(k) : s[i + j] = k[j]

\* d.get(key, default) on the page_data dict
Get(d, key, default) ==
    IF key \in DOMAIN d THEN d[key] ELSE default

\* the string literals of the rule predicates

S_warranty ==
    <<"w", "a", "r", "r", "a", "n", "t", "y">>

S_ssl ==
    <<"s", "s", "l">>

S_secure ==
    <<"s", "e", "c", "u", "r", "e">>

S_trusted ==
    <<"t", "r", "u", "s", "t", "e", "d">>

S_video ==
    <<"v", "i", "d", "e", "o">>

S_regular_price ==
    <<"r", "e", "g", "u", "l", "a", "r", " ", "p", "r", "i", "c", "e">>

S_customer_reviews ==
    <<"c", "u", "s", "t", "o", "m", "e", "r", " ", "r", "e", "v", "i", "e", "w", "s">>

S_sold_out ==
    <<"s", "o", "l", "d", " ", "o", "u", "t">>

S_add_to_cart ==
    <<"a", "d", "d", " ", "t", "o", " ", "c", "a", "r", "t">>

S_specifications ==
    <<"s", "p", "e", "c", "i", "f", "i", "c", "a", "t", "i", "o", "n", "s">>

S_faq ==
    <<"f", "a", "q">>


-----------------------------------------------------------------------------
(* The recommendation literals of the 14 rules, in source order *)

Rec1 ==
    OptimizationRecommendation("TRUST_CREDIBILITY", "HIGH",
        "Add Prominent Warranty Information",
        "The page mentions warranty but it's not prominently displayed. Add a trust badge or warranty guarantee section.",
        "Increases customer confidence and reduces purchase anxiety",
        "Add a warranty badge near the price and create a dedicated warranty section",
        "15-25% increase in conversion rate",
        "<div class=\"warranty-badge\">")

Rec2 ==
    OptimizationRecommendation("TRUST_CREDIBILITY", "MEDIUM",
        "Add Security Trust Badges",
        "Missing security indicators that build customer trust",
        "Reduces cart abandonment due to security concerns",
        "Add SSL certificate badges, payment security icons, and trust seals",
        "8-12% reduction in cart abandonment",
        None)

Rec3 ==
    OptimizationRecommendation("UX", "HIGH",
        "Add More Product Images",
        "Limited product images reduce customer confidence in purchase decision",
        "Better product visualization leads to higher conversion rates",
        "Add multiple angles, close-ups, and usage demonstration images",
        "20-30% increase in conversion rate",
        None)

Rec4 ==
    OptimizationRecommendation("UX", "MEDIUM",
        "Add Product Demo Video",
        "Video demonstrations significantly improve conversion rates",
        "Shows product in action and builds confidence",
        "Create a 30-60 second product demonstration video",
        "25-40% increase in conversion rate",
        None)

Rec5 ==
    OptimizationRecommendation("PRICING_VALUE", "MEDIUM",
        "Improve Price Anchoring",
        "Current price display could be more compelling",
        "Better price perception increases perceived value",
        "Show original price crossed out, highlight savings amount",
        "10-15% increase in conversion rate",
        "<div class=\"pricing\">")

Rec6 ==
    OptimizationRecommendation("PRICING_VALUE", "HIGH",
        "Strengthen Value Proposition",
        "Limited benefits listed may not justify the price point",
        "Clear value proposition increases willingness to pay",
        "Add more specific benefits and use cases",
        "15-25% increase in conversion rate",
        None)

Rec7 ==
    OptimizationRecommendation("SOCIAL_PROOF", "HIGH",
        "Add Customer Reviews Section",
        "Missing customer reviews and testimonials",
        "Social proof is crucial for building trust and credibility",
        "Add a reviews section with star ratings and customer testimonials",
        "20-35% increase in conversion rate",
        "<div class=\"reviews-section\">")

Rec8 ==
    OptimizationRecommendation("SOCIAL_PROOF", "MEDIUM",
        "Add Urgency Elements",
        "Limited stock creates urgency but could be better communicated",
        "Creates fear of missing out and encourages immediate purchase",
        "Add countdown timers, stock indicators, and urgency messaging",
        "10-20% increase in conversion rate",
        None)

Rec9 ==
    OptimizationRecommendation("CTA", "HIGH",
        "Optimize CTA Button",
        "Current CTA could be more compelling and action-oriented",
        "Better CTAs lead to higher click-through rates",
        "Use action-oriented text, add urgency, and improve button design",
        "15-25% increase in click-through rate",
        "<button class=\"cta-button primary\">")

Rec10 ==
    OptimizationRecommendation("CTA", "MEDIUM",
        "Add Multiple CTAs",
        "Single CTA may not capture all potential customers",
        "Multiple CTAs increase chances of conversion",
        "Add CTAs at different scroll positions and in different formats",
        "10-15% increase in conversion rate",
        None)

Rec11 ==
    OptimizationRecommendation("CONTENT_QUALITY", "MEDIUM",
        "Add Detailed Specifications",
        "Missing technical specifications may reduce customer confidence",
        "Detailed specs help customers make informed decisions",
        "Add a specifications table with all technical details",
        "8-12% increase in conversion rate",
        None)

Rec12 ==
    OptimizationRecommendation("CONTENT_QUALITY", "LOW",
        "Add FAQ Section",
        "FAQ section addresses common customer concerns",
        "Reduces customer service inquiries and builds confidence",
        "Add common questions about compatibility, setup, and usage",
        "5-10% increase in conversion rate",
        None)

Rec13 ==
    OptimizationRecommendation("TECHNICAL", "HIGH",
        "Improve Mobile Experience",
        "Mobile optimization is crucial for modern e-commerce",
        "Better mobile experience increases mobile conversions",
        "Ensure responsive design, fast loading, and mobile-friendly CTAs",
        "20-30% increase in mobile conversion rate",
        None)

Rec14 ==
    OptimizationRecommendation("TECHNICAL", "MEDIUM",
        "Optimize Page Speed",
        "Slow loading times increase bounce rates",
        "Faster pages lead to better user experience and higher conversions",
        "Optimize images, minimize HTTP requests, use CDN",
        "10-20% reduction in bounce rate",
        None)


-----------------------------------------------------------------------------
(* Inputs: the page_data dicts handed to analyze_page *)

\* text fragments a page content is assembled from, in mixed case

F_warranty ==
    <<"1", " ", "Y", "e", "a", "r", " ", "W", "a", "r", "r", "a", "n", "t", "y">>

F_ssl ==
    <<"S", "S", "L">>

F_secure ==
    <<"S", "e", "c", "u", "r", "e">>

F_trusted ==
    <<"T", "R", "U", "S", "T", "E", "D">>

F_videos ==
    <<"v", "i", "d", "e", "o", "s">>

F_regular_price ==
    <<"R", "e", "g", "u", "l", "a", "r", " ", "p", "r", "i", "c", "e">>

F_customer_reviews ==
    <<"C", "u", "s", "t", "o", "m", "e", "r", " ", "R", "e", "v", "i", "e", "w", "s">>

F_sold_out ==
    <<"S", "O", "L", "D", " ", "O", "U", "T">>

F_add_to_cart ==
    <<"A", "d", "d", " ", "T", "o", " ", "C", "a", "r", "t">>

F_specifications ==
    <<"S", "p", "e", "c", "i", "f", "i", "c", "a", "t", "i", "o", "n", "s">>

F_faq ==
    <<"F", "A", "Q">>

\* a fragment that holds no keyword of any rule
F_free_returns ==
    <<
    "F", "r", "e", "e", " ", "r", "e", "t", "u", "r", "n", "s", ",", " ", "c", "u", "s", "t", "o", "m",
    "e", "r", "s", " ", "r", "e", "v", "i", "e", "w" >>

Fragments ==
    <<F_warranty, F_ssl, F_secure, F_trusted,
      F_videos, F_regular_price, F_customer_reviews, F_sold_out,
      F_add_to_cart, F_specifications, F_faq, F_free_returns>>

\* a page text that mentions every keyword whose absence a rule reports
FullContent ==
    <<
    "1", " ", "Y", "e", "a", "r", " ", "W", "a", "r", "r", "a", "n", "t", "y", ".", " ", "S", "S", "L",
    " ", "c", "h", "e", "c", "k", "o", "u", "t", ".", " ", "V", "i", "d", "e", "o", " ", "t", "o", "u",
    "r", ".", " ", "C", "u", "s", "t", "o", "m", "e", "r", " ", "R", "e", "v", "i", "e", "w", "s", ".",
    " ", "S", "p", "e", "c", "i", "f", "i", "c", "a", "t", "i", "o", "n", "s", ".", " ", "F", "A", "Q",
    "." >>

\* the content literal of analyze_tapeplayers_page
DemoContent ==
    <<
    "\n", " ", " ", " ", " ", " ", " ", " ", " ", "C", "a", "n", "o", "n", " ", "H", "i", "8", " ", "C",
    "a", "m", "c", "o", "r", "d", "e", "r", " ", "8", "m", "m", " ", "T", "a", "p", "e", " ", "P", "l",
    "a", "y", "e", "r", " ", "w", "/", " ", "n", "e", "w", " ", "b", "a", "t", "t", "e", "r", "y", ",",
    " ", "U", "S", "B", ",", " ", "d", "i", "g", "i", "t", "i", "z", "i", "n", "g", " ", "s", "o", "f",
    "t", "w", "a", "r", "e", "\n", " ", " ", " ", " ", " ", " ", " ", " ", "R", "e", "g", "u", "l", "a",
    "r", " ", "p", "r", "i", "c", "e", " ", "$", "2", "4", "9", ".", "0", "0", "\n", " ", " ", " ", " ",
    " ", " ", " ", " ", "Q", "u", "a", "l", "i", "f", "i", "e", "s", " ", "f", "o", "r", " ", "f", "r",
    "e", "e", " ", "s", "h", "i", "p", "p", "i", "n", "g", "\n", " ", " ", " ", " ", " ", " ", " ", " ",
    "F", "r", "e", "e", " ", "r", "e", "t", "u", "r", "n", "s", " ", "f", "o", "r", " ", "3", "0", " ",
    "d", "a", "y", "s", "\n", " ", " ", " ", " ", " ", " ", " ", " ", "1", " ", "y", "e", "a", "r", " ",
    "w", "a", "r", "r", "a", "n", "t", "y", "\n", " ", " ", " ", " ", " ", " ", " ", " ", "P", "l", "a",
    "y", " ", "a", "n", "d", " ", "d", "i", "g", "i", "t", "i", "z", "e", " ", "8", "m", "m", ",", " ",
    "H", "i", "8", " ", "t", "a", "p", "e", "s", "\n", " ", " ", " ", " ", " ", " ", " ", " ", "S", "h",
    "o", "o", "t", " ", "a", "u", "t", "h", "e", "n", "t", "i", "c", " ", "v", "i", "n", "t", "a", "g",
    "e", " ", "v", "i", "d", "e", "o", "s", " ", "o", "n", " ", "t", "a", "p", "e", "\n", " ", " ", " ",
    " ", " ", " ", " ", " ", "S", "a", "f", "e", "l", "y", " ", "p", "r", "e", "s", "e", "r", "v", "e",
    " ", "y", "o", "u", "r", " ", "t", "a", "p", "e", "s", " ", "a", "t", " ", "h", "o", "m", "e", "\n",
    " ", " ", " ", " ", " ", " ", " ", " ", "I", "n", "c", "l", "u", "d", "e", "s", " ", "b", "a", "t",
    "t", "e", "r", "y", ",", " ", "b", "l", "a", "n", "k", " ", "t", "a", "p", "e", ",", " ", "c", "h",
    "a", "r", "g", "e", "r", "\n", " ", " ", " ", " ", " ", " ", " ", " ", "G", "u", "a", "r", "a", "n",
    "t", "e", "e", "d", " ", "1", "0", "0", "%", " ", "w", "o", "r", "k", "i", "n", "g", ",", " ", "f",
    "r", "e", "e", " ", "r", "e", "t", "u", "r", "n", "s", "\n", " ", " ", " ", " ", " ", " ", " ", " ",
    "T", "h", "i", "s", " ", "b", "u", "n", "d", "l", "e", " ", "i", "n", "c", "l", "u", "d", "e", "s",
    " ", "a", " ", "f", "u", "l", "l", "y", " ", "t", "e", "s", "t", "e", "d", " ", "a", "n", "d", " ",
    "w", "o", "r", "k", "i", "n", "g", " ", "8", "m", "m", " ", "c", "a", "m", "c", "o", "r", "d", "e",
    "r", ",", " ", "a", "n", "d", " ", "a", "l", "l", " ", "o", "f", " ", "t", "h", "e", " ", "n", "e",
    "c", "e", "s", "s", "a", "r", "y", " ", "c", "o", "m", "p", "o", "n", "e", "n", "t", "s", " ", "t",
    "o", " ", "p", "l", "a", "y", "b", "a", "c", "k", " ", "y", "o", "u", "r", " ", "8", "m", "m", ",",
    " ", "H", "i", "8", " ", "t", "a", "p", "e", "s", " ", "o", "n", " ", "a", "n", "y", " ", "T", "V",
    " ", "o", "r", " ", "P", "C", ".", " ", "Y", "o", "u", " ", "c", "a", "n", " ", "a", "l", "s", "o",
    " ", "d", "i", "g", "i", "t", "i", "z", "e", " ", "y", "o", "u", "r", " ", "8", "m", "m", " ", "t",
    "a", "p", "e", "s", " ", "o", "v", "e", "r", " ", "U", "S", "B", " ", "u", "s", "i", "n", "g", " ",
    "a", "n", "y", " ", "c", "o", "m", "p", "u", "t", "e", "r", " ", "a", "n", "d", " ", "p", "r", "e",
    "s", "e", "r", "v", "e", " ", "o", "r", " ", "s", "h", "a", "r", "e", " ", "y", "o", "u", "r", " ",
    "m", "e", "m", "o", "r", "i", "e", "s", ".", "\n", " ", " ", " ", " ", " ", " ", " ", " ", "I", "n",
    "c", "l", "u", "d", "e", "s", " ", "b", "a", "t", "t", "e", "r", "y", " ", "a", "n", "d", " ", "b",
    "l", "a", "n", "k", " ", "t", "a", "p", "e", ",", " ", "s", "o", " ", "y", "o", "u", "'", "r", "e",
    " ", "r", "e", "a", "d", "y", " ", "t", "o", " ", "s", "t", "a", "r", "t", " ", "s", "h", "o", "o",
    "t", "i", "n", "g", " ", "v", "i", "n", "t", "a", "g", "e", " ", "s", "t", "y", "l", "e", " ", "v",
    "i", "d", "e", "o", "s", " ", "t", "h", "a", "t", " ", "h", "a", "v", "e", " ", "a", " ", "w", "a",
    "r", "m", " ", "f", "u", "z", "z", "y", " ", "l", "o", "o", "k", " ", "a", "n", "d", " ", "f", "e",
    "e", "l", ".", " ", "M", "a", "n", "y", " ", "o", "f", " ", "o", "u", "r", " ", "c", "u", "s", "t",
    "o", "m", "e", "r", "s", " ", "u", "s", "e", " ", "t", "h", "e", "s", "e", " ", "v", "i", "n", "t",
    "a", "g", "e", " ", "c", "a", "m", "c", "o", "r", "d", "e", "r", "s", " ", "f", "o", "r", " ", "s",
    "k", "a", "t", "e", " ", "v", "i", "d", "e", "o", "s", ",", " ", "h", "i", "p", "-", "h", "o", "p",
    " ", "m", "u", "s", "i", "c", " ", "v", "i", "d", "e", "o", "s", ",", " ", "a", "n", "d", " ", "t",
    "o", " ", "c", "a", "p", "t", "u", "r", "e", " ", "t", "h", "o", "s", "e", " ", "i", "c", "o", "n",
    "i", "c", " ", "m", "o", "m", "e", "n", "t", "s", " ", "l", "i", "k", "e", " ", "w", "e", "d", "d",
    "i", "n", "g", "s", ",", " ", "t", "r", "a", "v", "e", "l", ",", " ", "o", "r", " ", "a", " ", "c",
    "h", "i", "l", "d", "'", "s", " ", "f", "i", "r", "s", "t", " ", "c", "a", "m", "e", "r", "a", ".",
    "\n", " ", " ", " ", " ", " ", " ", " ", " ", "T", "h", "i", "s", " ", "p", "r", "o", "d", "u", "c",
    "t", " ", "i", "s", " ", "b", "a", "c", "k", "e", "d", " ", "o", "u", "r", " ", "3", "6", "5", " ",
    "d", "a", "y", " ", "g", "u", "a", "r", "a", "n", "t", "e", "e", ".", " ", "Y", "o", "u", "r", " ",
    "p", "r", "o", "d", "u", "c", "t", " ", "i", "s", " ", "e", "l", "i", "g", "i", "b", "l", "e", " ",
    "f", "o", "r", " ", "a", " ", "r", "e", "p", "l", "a", "c", "e", "m", "e", "n", "t", " ", "o", "r",
    " ", "r", "e", "f", "u", "n", "d", " ", "w", "i", "t", "h", "i", "n", " ", "3", "6", "5", " ", "d",
    "a", "y", "s", " ", "o", "f", " ", "r", "e", "c", "e", "i", "p", "t", " ", "i", "f", " ", "i", "t",
    " ", "d", "o", "e", "s", " ", "n", "o", "t", " ", "w", "o", "r", "k", " ", "a", "s", " ", "e", "x",
    "p", "e", "c", "t", "e", "d", ".", " ", "G", "e", "t", " ", "q", "u", "i", "c", "k", " ", "s", "u",
    "p", "p", "o", "r", "t", " ", "f", "o", "r", " ", "c", "l", "a", "i", "m", "s", " ", "a", "n", "d",
    " ", "f", "r", "e", "e", " ", "t", "r", "o", "u", "b", "l", "e", "s", "h", "o", "o", "t", "i", "n",
    "g", ".", " ", "T", "h", "e", " ", "g", "u", "a", "r", "a", "n", "t", "e", "e", " ", "i", "s", " ",
    "i", "n", " ", "c", "o", "n", "j", "u", "n", "c", "t", "i", "o", "n", " ", "w", "i", "t", "h", " ",
    "o", "u", "r", " ", "s", "t", "a", "n", "d", "a", "r", "d", " ", "3", "0", " ", "d", "a", "y", " ",
    "f", "r", "e", "e", " ", "r", "e", "t", "u", "r", "n", " ", "p", "o", "l", "i", "c", "y", "\n", " ",
    " ", " ", " ", " ", " ", " ", " ", "W", "h", "a", "t", "'", "s", " ", "i", "n", " ", "t", "h", "e",
    " ", "B", "o", "x", "\n", " ", " ", " ", " ", " ", " ", " ", " ", "8", "m", "m", "/", "H", "i", "8",
    " ", "c", "a", "m", "c", "o", "r", "d", "e", "r", "\n", " ", " ", " ", " ", " ", " ", " ", " ", "B",
    "a", "t", "t", "e", "r", "y", "\n", " ", " ", " ", " ", " ", " ", " ", " ", "A", "C", " ", "a", "d",
    "a", "p", "t", "e", "r", ",", " ", "c", "h", "a", "r", "g", "e", "r", "\n", " ", " ", " ", " ", " ",
    " ", " ", " ", "A", "V", " ", "R", "C", "A", " ", "c", "a", "b", "l", "e", "\n", " ", " ", " ", " ",
    " ", " ", " ", " ", "A", "V", " ", "t", "o", " ", "U", "S", "B", " ", "A", "d", "a", "p", "t", "e",
    "r", "\n", " ", " ", " ", " ", " ", " ", " ", " ", "B", "l", "a", "n", "k", " ", "t", "a", "p", "e",
    "\n", " ", " ", " ", " ", " ", " ", " ", " ", "D", "i", "g", "i", "t", "i", "z", "i", "n", "g", " ",
    "s", "o", "f", "t", "w", "a", "r", "e", "\n", " ", " ", " ", " ", " ", " ", " ", " " >>

\* the benefits literal of analyze_tapeplayers_page
DemoBenefits ==
    <<"Play and digitize 8mm, Hi8 tapes",
      "Shoot authentic vintage videos on tape",
      "Safely preserve your tapes at home",
      "Includes battery, blank tape, charger",
      "Guaranteed 100% working, free returns">>

RECURSIVE Join(_)
\* the fragments of fs, in order, separated by single spaces
Join(fs) ==
    IF Len(fs) = 0 THEN <<>>
    ELSE IF Len(fs) = 1 THEN fs[1]
    ELSE fs[1] \o <<" ">> \o Join(Tail(fs))

\* the fragments at the places picked, in the order of Fragments
Pick(places) ==
    LET nth(k) == CHOOSE i \in places : Cardinality({j \in places : j < i}) = k - 1
    IN  [k \in 1..Cardinality(places) |-> Fragments[nth(k)]]

\* the texts made of at most MaxFrags different fragments
Contents ==
    {Join(Pick(places)) : places \in {P \in SUBSET (1..Len(Fragments)) : Cardinality(P) <= MaxFrags}}

\* FullContent alone, or followed by one more fragment
FullContents ==
    {FullContent} \cup {Join(<<FullContent, Fragments[i]>>) : i \in 1..Len(Fragments)}

\* a benefits list of n entries
BenefitList(n) ==
    [i \in 1..n |-> DemoBenefits[((i - 1) % Len(DemoBenefits)) + 1]]

\* the dict literal built by the /analyze handler and by analyze_tapeplayers_page
PageData(url, title, price, content, image_count, cta_count, load_time, mobile_optimized, benefits) ==
    [url |-> url, title |-> title, price |-> price, content |-> content,
     image_count |-> image_count, cta_count |-> cta_count, load_time |-> load_time,
     mobile_optimized |-> mobile_optimized, benefits |-> benefits]

\* pages whose counts sit on either side of each rule's threshold
BoundaryPages ==
    {PageData("", "", 0, c, i, n, t, m, BenefitList(b)) :
        c \in Contents, i \in {2, 3}, n \in {1, 2}, t \in {30, 31},
        m \in BOOLEAN, b \in {4, 5}}

\* pages with the full text, counts at or beyond each threshold
AmplePages ==
    {PageData("", "", 0, c, i, n, t, m, BenefitList(b)) :
        c \in FullContents, i \in {3, 4}, n \in {2, 3}, t \in {25, 30},
        m \in BOOLEAN, b \in {5, 6}}

\* pages that supply only text: every other field holds its default
DefaultPages ==
    {PageData("", "", 0, c, 0, 0, 0, FALSE, <<>>) : c \in Contents}

\* the page_data literal of analyze_tapeplayers_page
DemoPage ==
    PageData("https://tapeplayers.com/products/canon-hi8-camcorder-tape-player-w-new-battery-usb-digitizing-software",
             "Canon Hi8 Camcorder 8mm Tape Player w/ new battery, USB, digitizing software",
             2490, DemoContent, 4, 1, 25, TRUE, DemoBenefits)

PageInputs ==
    BoundaryPages \cup AmplePages \cup DefaultPages \cup {DemoPage}

Times ==
    1..MaxTime

-----------------------------------------------------------------------------
(* The rule methods: each returns self.recommendations after the method *)

\* variant: the security-badge test without .lower()
_analyze_trust_elements_case_sensitive(recs, pd) ==
    LET r1 == IF ~In(S_warranty, lower(Get(pd, "content", <<>>)))
              THEN Append(recs, Rec1) ELSE recs
        r2 == IF ~(\E badge \in {S_ssl, S_secure, S_trusted} :
                       In(badge, Get(pd, "content", <<>>)))
              THEN Append(r1, Rec2) ELSE r1
    IN  r2

\* variant: the security-badge recommendation added once for each missing badge
_analyze_trust_elements_per_badge(recs, pd) ==
    LET r1 == IF ~In(S_warranty, lower(Get(pd, "content", <<>>)))
              THEN Append(recs, Rec1) ELSE recs
        missing == Cardinality({badge \in {S_ssl, S_secure, S_trusted} :
                                    ~In(badge, lower(Get(pd, "content", <<>>)))})
        r2 == r1 \o [i \in 1..missing |-> Rec2]
    IN  r2

_analyze_trust_elements(recs, pd) ==
    LET r1 == IF ~In(S_warranty, lower(Get(pd, "content", <<>>)))
              THEN Append(recs, Rec1) ELSE recs
        r2 == IF ~(\E badge \in {S_ssl, S_secure, S_trusted} :
                       In(badge, lower(Get(pd, "content", <<>>))))
              THEN Append(r1, Rec2) ELSE r1
    IN  r2

\* variant: the video test placed before the image test
_analyze_user_experience_swapped(recs, pd) ==
    LET r1 == IF ~In(S_video, lower(Get(pd, "content", <<>>)))
              THEN Append(recs, Rec4) ELSE recs
        r2 == IF Get(pd, "image_count", 0) < 3
              THEN Append(r1, Rec3) ELSE r1
    IN  r2

\* variant: image_count <= 3
_analyze_user_experience_inclusive(recs, pd) ==
    LET r1 == IF Get(pd, "image_count", 0) <= 3
              THEN Append(recs, Rec3) ELSE recs
        r2 == IF ~In(S_video, lower(Get(pd, "content", <<>>)))
              THEN Append(r1, Rec4) ELSE r1
    IN  r2

\* variant: image_count defaults to 3 when the key is absent
_analyze_user_experience_default_three(recs, pd) ==
    LET r1 == IF Get(pd, "image_count", 3) < 3
              THEN Append(recs, Rec3) ELSE recs
        r2 == IF ~In(S_video, lower(Get(pd, "content", <<>>)))
              THEN Append(r1, Rec4) ELSE r1
    IN  r2

_analyze_user_experience(recs, pd) ==
    LET r1 == IF Get(pd, "image_count", 0) < 3
              THEN Append(recs, Rec3) ELSE recs
        r2 == IF ~In(S_video, lower(Get(pd, "content", <<>>)))
              THEN Append(r1, Rec4) ELSE r1
    IN  r2

\* variant: len(benefits) <= 5
_analyze_pricing_strategy_inclusive(recs, pd) ==
    LET r1 == IF In(S_regular_price, lower(Get(pd, "content", <<>>)))
              THEN Append(recs, Rec5) ELSE recs
        r2 == IF Len(Get(pd, "benefits", <<>>)) <= 5
              THEN Append(r1, Rec6) ELSE r1
    IN  r2

\* variant: price anchoring is recommended only for a page that gives a price
_analyze_pricing_strategy_priced(recs, pd) ==
    LET r1 == IF In(S_regular_price, lower(Get(pd, "content", <<>>))) /\ Get(pd, "price", 0) > 0
              THEN Append(recs, Rec5) ELSE recs
        r2 == IF Len(Get(pd, "benefits", <<>>)) < 5
              THEN Append(r1, Rec6) ELSE r1
    IN  r2

_analyze_pricing_strategy(recs, pd) ==
    LET r1 == IF In(S_regular_price, lower(Get(pd, "content", <<>>)))
              THEN Append(recs, Rec5) ELSE recs
        r2 == IF Len(Get(pd, "benefits", <<>>)) < 5
              THEN Append(r1, Rec6) ELSE r1
    IN  r2

_analyze_social_proof(recs, pd) ==
    LET r1 == IF ~In(S_customer_reviews, lower(Get(pd, "content", <<>>)))
              THEN Append(recs, Rec7) ELSE recs
        r2 == IF In(S_sold_out, lower(Get(pd, "content", <<>>)))
              THEN Append(r1, Rec8) ELSE r1
    IN  r2

\* variant: a cta_count of 0 is taken as "not measured"
_analyze_call_to_actions_measured(recs, pd) ==
    LET r1 == IF In(S_add_to_cart, lower(Get(pd, "content", <<>>)))
              THEN Append(recs, Rec9) ELSE recs
        r2 == IF 0 < Get(pd, "cta_count", 0) /\ Get(pd, "cta_count", 0) < 2
              THEN Append(r1, Rec10) ELSE r1
    IN  r2

_analyze_call_to_actions(recs, pd) ==
    LET r1 == IF In(S_add_to_cart, lower(Get(pd, "content", <<>>)))
              THEN Append(recs, Rec9) ELSE recs
        r2 == IF Get(pd, "cta_count", 0) < 2
              THEN Append(r1, Rec10) ELSE r1
    IN  r2

\* variant: the FAQ recommendation filed under Category.OVERALL
_analyze_content_quality_overall(recs, pd) ==
    LET r1 == IF ~In(S_specifications, lower(Get(pd, "content", <<>>)))
              THEN Append(recs, Rec11) ELSE recs
        r2 == IF ~In(S_faq, lower(Get(pd, "content", <<>>)))
              THEN Append(r1, [Rec12 EXCEPT !.category = "OVERALL"]) ELSE r1
    IN  r2

_analyze_content_quality(recs, pd) ==
    LET r1 == IF ~In(S_specifications, lower(Get(pd, "content", <<>>)))
              THEN Append(recs, Rec11) ELSE recs
        r2 == IF ~In(S_faq, lower(Get(pd, "content", <<>>)))
              THEN Append(r1, Rec12) ELSE r1
    IN  r2

\* variant: load_time >= 3
_analyze_technical_elements_inclusive(recs, pd) ==
    LET r1 == IF ~Get(pd, "mobile_optimized", FALSE)
              THEN Append(recs, Rec13) ELSE recs
        r2 == IF Get(pd, "load_time", 0) >= 30
              THEN Append(r1, Rec14) ELSE r1
    IN  r2

\* load_time > 3, with load_time in tenths of a second
_analyze_technical_elements(recs, pd) ==
    LET r1 == IF ~Get(pd, "mobile_optimized", FALSE)
              THEN Append(recs, Rec13) ELSE recs
        r2 == IF Get(pd, "load_time", 0) > 30
              THEN Append(r1, Rec14) ELSE r1
    IN  r2

-----------------------------------------------------------------------------
(* Python dicts, as sequences of <<key, value>> pairs in insertion order *)

DictKeys(d) ==
    [i \in 1..Len(d) |-> d[i][1]]

HasKey(d, k) ==
    \E i \in 1..Len(d) : d[i][1] = k

\* d.get(k, default)
DictGet(d, k, default) ==
    IF HasKey(d, k) THEN d[CHOOSE i \in 1..Len(d) : d[i][1] = k][2] ELSE default

\* d[k] = v
DictSet(d, k, v) ==
    IF HasKey(d, k)
    THEN [i \in 1..Len(d) |-> IF d[i][1] = k THEN <<k, v>> ELSE d[i]]
    ELSE Append(d, <<k, v>>)

-----------------------------------------------------------------------------
(* _generate_report *)

\* variant: asdict(rec) as it is, category and priority left as enum members
rec_dict_enum_members(rec) ==
    rec

\* asdict(rec) with category and priority replaced by their values
rec_dict(rec) ==
    [rec EXCEPT !.category = Category[rec.category],
                !.priority = Priority[rec.priority]]

RECURSIVE grouped_recommendations_reset(_, _, _)
\* variant: the list of a category is emptied at every entry, not only the first
grouped_recommendations_reset(recs, i, grouped) ==
    IF i > Len(recs) THEN grouped
    ELSE LET rec == recs[i]
             key == Category[rec.category]
             g1  == DictSet(grouped, key, <<>>)
             g2  == DictSet(g1, key, Append(DictGet(g1, key, <<>>), rec_dict(rec)))
         IN  grouped_recommendations_reset(recs, i + 1, g2)

RECURSIVE grouped_recommendations(_, _, _)
\* the loop "for rec in self.recommendations" that groups by category, from index i
grouped_recommendations(recs, i, grouped) ==
    IF i > Len(recs) THEN grouped
    ELSE LET rec == recs[i]
             key == Category[rec.category]
             g1  == IF ~HasKey(grouped, key) THEN DictSet(grouped, key, <<>>) ELSE grouped
             g2  == DictSet(g1, key, Append(DictGet(g1, key, <<>>), rec_dict(rec)))
         IN  grouped_recommendations(recs, i + 1, g2)

RECURSIVE priority_counts_from_zero(_, _, _)
\* variant: every priority is given an entry, 0 when it does not occur
priority_counts_from_zero(recs, i, counts) ==
    IF i > Len(recs)
    THEN LET c1 == DictSet(counts, "High", DictGet(counts, "High", 0))
             c2 == DictSet(c1, "Medium", DictGet(c1, "Medium", 0))
         IN  DictSet(c2, "Low", DictGet(c2, "Low", 0))
    ELSE LET key == Priority[recs[i].priority]
         IN  priority_counts_from_zero(recs, i + 1, DictSet(counts, key, DictGet(counts, key, 0) + 1))

RECURSIVE priority_counts(_, _, _)
\* the loop "for rec in self.recommendations" that counts by priority, from index i
priority_counts(recs, i, counts) ==
    IF i > Len(recs) THEN counts
    ELSE LET key == Priority[recs[i].priority]
         IN  priority_counts(recs, i + 1, DictSet(counts, key, DictGet(counts, key, 0) + 1))

\* variant: the Low tier is left out of the order
_get_implementation_priority_no_low(recs) ==
    LET high_priority   == SelectSeq(recs, LAMBDA r : r.priority = "HIGH")
        medium_priority == SelectSeq(recs, LAMBDA r : r.priority = "MEDIUM")
        ordered         == high_priority \o medium_priority
    IN  [i \in 1..Len(ordered) |-> ordered[i].title]

\* variant: the titles in accumulator order
_get_implementation_priority_unsorted(recs) ==
    [i \in 1..Len(recs) |-> recs[i].title]

_get_implementation_priority(recs) ==
    LET high_priority   == SelectSeq(recs, LAMBDA r : r.priority = "HIGH")
        medium_priority == SelectSeq(recs, LAMBDA r : r.priority = "MEDIUM")
        low_priority    == SelectSeq(recs, LAMBDA r : r.priority = "LOW")
        ordered         == high_priority \o medium_priority \o low_priority
    IN  [i \in 1..Len(ordered) |-> ordered[i].title]

\* s[:n]
Slice(s, n) ==
    SubSeq(s, 1, IF Len(s) < n THEN Len(s) ELSE n)

\* variant: the last three High recommendations, [-3:]
quick_wins_last_three(recs) ==
    LET high == SelectSeq(recs, LAMBDA r : r.priority = "HIGH")
        wins == SubSeq(high, IF Len(high) < 3 THEN 1 ELSE Len(high) - 2, Len(high))
    IN  [i \in 1..Len(wins) |->
            [title |-> wins[i].title,
             description |-> wins[i].description,
             impact |-> wins[i].impact,
             implementation |-> wins[i].implementation,
             estimated_improvement |-> wins[i].estimated_improvement,
             priority |-> Priority[wins[i].priority],
             category |-> Category[wins[i].category]]]

\* variant: the first three recommendations of any priority
quick_wins_unfiltered(recs) ==
    LET wins == Slice(recs, 3)
    IN  [i \in 1..Len(wins) |->
            [title |-> wins[i].title,
             description |-> wins[i].description,
             impact |-> wins[i].impact,
             implementation |-> wins[i].implementation,
             estimated_improvement |-> wins[i].estimated_improvement,
             priority |-> Priority[wins[i].priority],
             category |-> Category[wins[i].category]]]

\* the quick_wins list comprehension
quick_wins(recs) ==
    LET wins == Slice(SelectSeq(recs, LAMBDA r : r.priority = "HIGH"), 3)
    IN  [i \in 1..Len(wins) |->
            [title |-> wins[i].title,
             description |-> wins[i].description,
             impact |-> wins[i].impact,
             implementation |-> wins[i].implementation,
             estimated_improvement |-> wins[i].estimated_improvement,
             priority |-> Priority[wins[i].priority],
             category |-> Category[wins[i].category]]]

\* variant: the report carries a second time stamp
_generate_report_two_stamps(recs, now) ==
    [analysis_date |-> now,
     generated_at |-> now,
     total_recommendations |-> Len(recs),
     priority_distribution |-> priority_counts(recs, 1, <<>>),
     recommendations_by_category |-> grouped_recommendations(recs, 1, <<>>),
     estimated_total_improvement |-> "40-60% increase in conversion rate",
     implementation_priority |-> _get_implementation_priority(recs),
     quick_wins |-> quick_wins(recs)]

\* variant: the improvement text is computed from the number of recommendations
_generate_report_computed(recs, now) ==
    [analysis_date |-> now,
     total_recommendations |-> Len(recs),
     priority_distribution |-> priority_counts(recs, 1, <<>>),
     recommendations_by_category |-> grouped_recommendations(recs, 1, <<>>),
     estimated_total_improvement |->
         IF Len(recs) = 0 THEN "0% increase in conversion rate"
         ELSE "40-60% increase in conversion rate",
     implementation_priority |-> _get_implementation_priority(recs),
     quick_wins |-> quick_wins(recs)]

\* the dict returned by _generate_report when datetime.now() is `now`
_generate_report(recs, now) ==
    [analysis_date |-> now,
     total_recommendations |-> Len(recs),
     priority_distribution |-> priority_counts(recs, 1, <<>>),
     recommendations_by_category |-> grouped_recommendations(recs, 1, <<>>),
     estimated_total_improvement |-> "40-60% increase in conversion rate",
     implementation_priority |-> _get_implementation_priority(recs),
     quick_wins |-> quick_wins(recs)]

-----------------------------------------------------------------------------
(* The state machine: one ConversionOptimizer instance and its caller *)

NoPage ==
    [content |-> <<>>]

NoReport ==
    [analysis_date |-> 0]

\* the second thread before it calls anything
NoOther ==
    [pc |-> "idle", shared |-> FALSE, page_data |-> NoPage,
     recommendations |-> <<>>, report |-> NoReport]

\* no command-line program has been started
NoProgram ==
    [program |-> None, pc |-> "idle", exception |-> None, printed |-> <<>>]

\* no request has been received
NoRequest ==
    [pc |-> "idle"]

\* the exception the method at position m raises on a page whose keys nk hold
\* None, or None: None has no .lower(), no len() and no order with a number.
\* A None content is met by the first method, so the later ones never see it.
raises(m, nk) ==
    CASE m = "trust" /\ "content" \in nk -> "AttributeError"
      [] m = "ux" /\ "image_count" \in nk -> "TypeError"
      [] m = "pricing" /\ "benefits" \in nk -> "TypeError"
      [] m = "cta" /\ "cta_count" \in nk -> "TypeError"
      [] m = "technical" /\ "load_time" \in nk -> "TypeError"
      [] OTHER -> None

\* self.recommendations at the statement of the method at position m that
\* raises: the rule before it has been evaluated
raised_after(m, recs, pd) ==
    CASE m = "pricing" ->
             IF In(S_regular_price, lower(Get(pd, "content", <<>>)))
             THEN Append(recs, Rec5) ELSE recs
      [] m = "cta" ->
             IF In(S_add_to_cart, lower(Get(pd, "content", <<>>)))
             THEN Append(recs, Rec9) ELSE recs
      [] m = "technical" ->
             IF ~Get(pd, "mobile_optimized", FALSE)
             THEN Append(recs, Rec13) ELSE recs
      [] OTHER -> recs

\* ConversionOptimizer(): self.recommendations = []
Init ==
    /\ recommendations = <<>>
    /\ page_data = NoPage
    /\ pc = "idle"
    /\ report = NoReport
    /\ evaluated = <<>>
    /\ none_keys = {}
    /\ exception = None
    /\ call = None
    /\ earlier = <<>>
    /\ other = NoOther
    /\ http = NoRequest
    /\ cli = NoProgram

\* variant: self.recommendations is emptied only after a call that returned
analyze_page_reset_after_return(pd) ==
    /\ pc \in {"idle", "done", "raised"}
    /\ page_data' = pd
    /\ recommendations' = IF pc = "raised" THEN recommendations ELSE <<>>
    /\ report' = NoReport
    /\ evaluated' = <<>>
    /\ exception' = None
    /\ call' = "analyze_page"
    /\ pc' = "trust"

\* analyze_page is entered: self.recommendations = []
analyze_page(pd) ==
    /\ pc \in {"idle", "done", "raised"}
    /\ page_data' = pd
    /\ recommendations' = <<>>
    /\ report' = NoReport
    /\ evaluated' = <<>>
    /\ exception' = None
    /\ call' = "analyze_page"
    /\ pc' = "trust"

\* a caller constructs an optimizer and calls analyze_page on it
Call ==
    /\ pc = "idle"
    /\ \E pd \in PageInputs : analyze_page(pd)
    /\ UNCHANGED <<none_keys, earlier, other, http, cli>>

\* variant: the method stores the lower-cased text back into page_data
TrustElements_normalising ==
    /\ pc = "trust"
    /\ raises("trust", none_keys) = None
    /\ recommendations' = _analyze_trust_elements(recommendations, page_data)
    /\ page_data' = IF "content" \in DOMAIN page_data
                    THEN [page_data EXCEPT !.content = lower(@)]
                    ELSE page_data
    /\ evaluated' = evaluated \o <<1, 2>>
    /\ pc' = "ux"
    /\ UNCHANGED <<report, none_keys, exception, call, earlier, other, http, cli>>

TrustElements ==
    /\ pc = "trust"
    /\ raises("trust", none_keys) = None
    /\ recommendations' = _analyze_trust_elements(recommendations, page_data)
    /\ evaluated' = evaluated \o <<1, 2>>
    /\ pc' = "ux"
    /\ UNCHANGED <<page_data, report, none_keys, exception, call, earlier, other, http, cli>>

UserExperience ==
    /\ pc = "ux"
    /\ raises("ux", none_keys) = None
    /\ recommendations' = _analyze_user_experience(recommendations, page_data)
    /\ evaluated' = evaluated \o <<3, 4>>
    /\ pc' = "pricing"
    /\ UNCHANGED <<page_data, report, none_keys, exception, call, earlier, other, http, cli>>

PricingStrategy ==
    /\ pc = "pricing"
    /\ raises("pricing", none_keys) = None
    /\ recommendations' = _analyze_pricing_strategy(recommendations, page_data)
    /\ evaluated' = evaluated \o <<5, 6>>
    /\ pc' = "social"
    /\ UNCHANGED <<page_data, report, none_keys, exception, call, earlier, other, http, cli>>

SocialProof ==
    /\ pc = "social"
    /\ raises("social", none_keys) = None
    /\ recommendations' = _analyze_social_proof(recommendations, page_data)
    /\ evaluated' = evaluated \o <<7, 8>>
    /\ pc' = "cta"
    /\ UNCHANGED <<page_data, report, none_keys, exception, call, earlier, other, http, cli>>

CallToActions ==
    /\ pc = "cta"
    /\ raises("cta", none_keys) = None
    /\ recommendations' = _analyze_call_to_actions(recommendations, page_data)
    /\ evaluated' = evaluated \o <<9, 10>>
    /\ pc' = "content"
    /\ UNCHANGED <<page_data, report, none_keys, exception, call, earlier, other, http, cli>>

ContentQuality ==
    /\ pc = "content"
    /\ raises("content", none_keys) = None
    /\ recommendations' = _analyze_content_quality(recommendations, page_data)
    /\ evaluated' = evaluated \o <<11, 12>>
    /\ pc' = "technical"
    /\ UNCHANGED <<page_data, report, none_keys, exception, call, earlier, other, http, cli>>

TechnicalElements ==
    /\ pc = "technical"
    /\ raises("technical", none_keys) = None
    /\ recommendations' = _analyze_technical_elements(recommendations, page_data)
    /\ evaluated' = evaluated \o <<13, 14>>
    /\ pc' = "report"
    /\ UNCHANGED <<page_data, report, none_keys, exception, call, earlier, other, http, cli>>

\* return self._generate_report()
GenerateReport ==
    /\ pc = "report"
    /\ \E now \in Times : report' = _generate_report(recommendations, now)
    /\ pc' = "done"
    /\ UNCHANGED <<recommendations, page_data, evaluated, none_keys, exception, call, earlier, other, http, cli>>

Next ==
    \/ Call
    \/ TrustElements
    \/ UserExperience
    \/ PricingStrategy
    \/ SocialProof
    \/ CallToActions
    \/ ContentQuality
    \/ TechnicalElements
    \/ GenerateReport

Spec ==
    Init /\ [][Next]_vars

-----------------------------------------------------------------------------
(* Calls whose page_data omits keys or holds None *)

\* the keys the rule methods read with page_data.get
OptionalKeys ==
    {"content", "image_count", "cta_count", "load_time", "mobile_optimized", "benefits"}

\* the keys whose None value a rule method cannot use
NullableKeys ==
    {"content", "image_count", "cta_count", "load_time", "benefits"}

\* the dict pd without the keys ks
Omit(pd, ks) ==
    [k \in (DOMAIN pd) \ ks |-> pd[k]]

\* the dict pd with None as the value of the keys ks it has
WithNone(pd, ks) ==
    [k \in DOMAIN pd |-> IF k \in ks THEN None ELSE pd[k]]

\* a page with the full text, one with the two texts that make rules 5 and 9
\* fire, and the demo page
CompletePages ==
    {PageData("", "", 0, FullContent, 3, 2, 30, TRUE, BenefitList(5)),
     PageData("", "", 0, Join(<<F_regular_price, F_add_to_cart>>), 2, 1, 31, FALSE, BenefitList(4)),
     DemoPage}

\* the rules of each method, by position of the call
RulesOf ==
    [trust |-> <<1, 2>>, ux |-> <<3, 4>>, pricing |-> <<5, 6>>, social |-> <<7, 8>>,
     cta |-> <<9, 10>>, content |-> <<11, 12>>, technical |-> <<13, 14>>]

\* the value analyze_page returns for pd on a newly constructed optimizer when
\* datetime.now() is `now`: the seven rule methods in order, then the report
analyze_page_result(pd, now) ==
    LET r1 == _analyze_trust_elements(<<>>, pd)
        r2 == _analyze_user_experience(r1, pd)
        r3 == _analyze_pricing_strategy(r2, pd)
        r4 == _analyze_social_proof(r3, pd)
        r5 == _analyze_call_to_actions(r4, pd)
        r6 == _analyze_content_quality(r5, pd)
        r7 == _analyze_technical_elements(r6, pd)
    IN  _generate_report(r7, now)

\* a caller passes a dict that omits some optional keys and holds None at others
CallOptional ==
    /\ pc = "idle"
    /\ \E pd \in CompletePages \cup {Omit(DemoPage, {"url", "title", "price"})} :
       \E absent \in SUBSET OptionalKeys :
       \E nk \in SUBSET (NullableKeys \ absent) :
           /\ analyze_page(WithNone(Omit(pd, absent), nk))
           /\ none_keys' = nk
    /\ UNCHANGED <<earlier, other, http, cli>>

\* a rule method raises: the exception leaves analyze_page, no report is returned
Raise ==
    /\ pc \in DOMAIN RulesOf
    /\ raises(pc, none_keys) # None
    /\ recommendations' = raised_after(pc, recommendations, page_data)
    /\ evaluated' = evaluated \o (IF pc \in {"pricing", "cta", "technical"}
                                  THEN <<RulesOf[pc][1]>> ELSE <<>>)
    /\ exception' = raises(pc, none_keys)
    /\ pc' = "raised"
    /\ UNCHANGED <<page_data, report, none_keys, call, earlier, other, http, cli>>

NextOptional ==
    \/ CallOptional
    \/ TrustElements
    \/ UserExperience
    \/ PricingStrategy
    \/ SocialProof
    \/ CallToActions
    \/ ContentQuality
    \/ TechnicalElements
    \/ GenerateReport
    \/ Raise

SpecOptional ==
    Init /\ [][NextOptional]_vars

-----------------------------------------------------------------------------
(* _analyze_tapeplayers_page and its fixed recommendations; the emoji that   *)
(* opens each title in the source is left out of the title literal          *)

SpeedRec1 ==
    OptimizationRecommendation("TECHNICAL", "HIGH",
        "CRITICAL: Page Speed Failing Google Core Web Vitals",
        "Your page loads in 4.2 seconds - 67% slower than Google's recommended 2.5 seconds. This is causing massive bounce rates and lost sales.",
        "High",
        "Optimize images, minify CSS/JS, implement lazy loading, use CDN",
        "+35% conversion rate improvement",
        "<!-- Optimize images with WebP format -->")

SpeedRec2 ==
    OptimizationRecommendation("TECHNICAL", "HIGH",
        "Mobile Users Abandoning Due to Slow Load Times",
        "Mobile page speed score: 23/100. 78% of mobile users leave before the page fully loads, costing you thousands in lost revenue.",
        "High",
        "Implement AMP, optimize mobile images, reduce server response time",
        "+45% mobile conversion rate",
        "<!-- Mobile-first responsive design -->")

ScoringRec1 ==
    OptimizationRecommendation("OVERALL", "HIGH",
        "CRO Score: 2.8/10 - Failing Conversion Optimization",
        "Your page scores only 2.8 out of 10 on our conversion optimization scale. This puts you in the bottom 15% of e-commerce sites.",
        "Critical",
        "Implement all high-priority recommendations in this report",
        "+60% overall conversion rate",
        "Complete page redesign with all optimization features")

ScoringRec2 ==
    OptimizationRecommendation("TRUST_CREDIBILITY", "HIGH",
        "Trust Score: 3.2/10 - Customers Don't Trust Your Site",
        "Low trust indicators are causing 73% of visitors to abandon without purchasing. They're going to your competitors instead.",
        "High",
        "Add SSL badges, customer reviews, money-back guarantees, security certifications",
        "+40% trust-based conversions",
        "<!-- Trust indicators -->")

RevenueRec1 ==
    OptimizationRecommendation("OVERALL", "HIGH",
        "REVENUE ALERT: Losing $12,450+ Monthly Due to Poor CRO",
        "Based on your current traffic and conversion rates, you're losing $12,450+ in monthly revenue. That's $149,400+ annually left on the table!",
        "Critical",
        "Implement all recommendations immediately to stop revenue bleeding",
        "+$12,450 monthly revenue recovery",
        "Complete optimization implementation plan")

RevenueRec2 ==
    OptimizationRecommendation("UX", "HIGH",
        "Cart Abandonment Rate: 89% - Customers Are Walking Away",
        "89% of customers add items to cart but never complete purchase. This is costing you $8,900+ in lost sales monthly.",
        "High",
        "Add exit-intent popups, abandoned cart emails, trust signals, simplified checkout",
        "+$8,900 monthly recovered sales",
        "<!-- Exit intent popup -->")

RevenueRec3 ==
    OptimizationRecommendation("PRICING_VALUE", "HIGH",
        "67% of Visitors Going to Competitors After Viewing Your Page",
        "67% of your visitors leave to check competitors like Amazon, eBay, and other tape player sellers. They're stealing your customers!",
        "High",
        "Add competitive pricing guarantees, better product descriptions, superior customer service promises",
        "+$6,200 monthly revenue from competitor recovery",
        "<!-- Competitive guarantee -->")

\* variant: the two speed recommendations are given Priority.MEDIUM
_add_speed_test_analysis_medium(recs) ==
    Append(Append(recs, [SpeedRec1 EXCEPT !.priority = "MEDIUM"]),
           [SpeedRec2 EXCEPT !.priority = "MEDIUM"])

_add_speed_test_analysis(recs) ==
    Append(Append(recs, SpeedRec1), SpeedRec2)

_add_scoring_analysis(recs) ==
    Append(Append(recs, ScoringRec1), ScoringRec2)

_add_revenue_loss_calculations(recs) ==
    Append(Append(Append(recs, RevenueRec1), RevenueRec2), RevenueRec3)

\* the dict literal {}
EmptyDict ==
    [k \in {} |-> None]

\* _analyze_tapeplayers_page is entered: self.recommendations = [], the three
\* _add_ methods run, and the seven rule methods are about to be given {}
_analyze_tapeplayers_page ==
    /\ pc \in {"idle", "done", "raised"}
    /\ page_data' = EmptyDict
    /\ none_keys' = {}
    /\ recommendations' =
           _add_revenue_loss_calculations(_add_scoring_analysis(_add_speed_test_analysis(<<>>)))
    /\ report' = NoReport
    /\ evaluated' = <<>>
    /\ exception' = None
    /\ call' = "_analyze_tapeplayers_page"
    /\ pc' = "trust"

-----------------------------------------------------------------------------
(* Several calls, one after the other, on one ConversionOptimizer instance *)

\* the instance receives at most MaxCalls calls
MaxCalls == 3

\* the call that has just ended, as the history keeps it
EndedCall ==
    [call |-> call, page_data |-> page_data, none_keys |-> none_keys,
     pc |-> pc, report |-> report]

\* the history once the next call is entered
earlier_with_ended ==
    IF pc = "idle" THEN earlier ELSE Append(earlier, EndedCall)

\* the page with the full text, for which no rule fires, and a page with two
\* images whose text also makes rules 5 and 9 fire
SeqPages ==
    {PageData("", "", 0, FullContent, 3, 2, 30, TRUE, BenefitList(5)),
     PageData("", "", 0, Join(<<FullContent, F_regular_price, F_add_to_cart>>),
              2, 2, 30, TRUE, BenefitList(5))}

\* the caller calls analyze_page on the instance, new or used
CallAgain ==
    /\ pc \in {"idle", "done", "raised"}
    /\ Len(earlier_with_ended) < MaxCalls
    /\ \E pd \in SeqPages : \E nk \in {{}, {"benefits"}} :
           /\ analyze_page(WithNone(pd, nk))
           /\ none_keys' = nk
    /\ earlier' = earlier_with_ended
    /\ UNCHANGED <<other, http, cli>>

\* the caller calls _analyze_tapeplayers_page on the instance, new or used
TapePlayersPage ==
    /\ Len(earlier_with_ended) < MaxCalls
    /\ _analyze_tapeplayers_page
    /\ earlier' = earlier_with_ended
    /\ UNCHANGED <<other, http, cli>>

NextSeq ==
    \/ CallAgain
    \/ TapePlayersPage
    \/ TrustElements
    \/ UserExperience
    \/ PricingStrategy
    \/ SocialProof
    \/ CallToActions
    \/ ContentQuality
    \/ TechnicalElements
    \/ GenerateReport
    \/ Raise

SpecSeq ==
    Init /\ [][NextSeq]_vars

-----------------------------------------------------------------------------
(* Two threads calling analyze_page, on one instance or on one each *)

\* the rule method at position m of analyze_page
rule_method(m, recs, pd) ==
    CASE m = "trust" -> _analyze_trust_elements(recs, pd)
      [] m = "ux" -> _analyze_user_experience(recs, pd)
      [] m = "pricing" -> _analyze_pricing_strategy(recs, pd)
      [] m = "social" -> _analyze_social_proof(recs, pd)
      [] m = "cta" -> _analyze_call_to_actions(recs, pd)
      [] m = "content" -> _analyze_content_quality(recs, pd)
      [] m = "technical" -> _analyze_technical_elements(recs, pd)

\* the position that follows the rule method at position m
NextPosition ==
    [trust |-> "ux", ux |-> "pricing", pricing |-> "social", social |-> "cta",
     cta |-> "content", content |-> "technical", technical |-> "report"]

\* the same two pages
ConcPages ==
    SeqPages

\* the first thread calls analyze_page on its instance
CallConcurrent ==
    /\ pc = "idle"
    /\ \E pd \in ConcPages : analyze_page(pd)
    /\ UNCHANGED <<none_keys, earlier, other, http, cli>>

\* the second thread calls analyze_page, on the first thread's instance
\* (shared) or on one of its own: self.recommendations = []
OtherCall ==
    /\ other.pc = "idle"
    /\ \E pd \in ConcPages : \E sh \in BOOLEAN :
           /\ other' = [pc |-> "trust", shared |-> sh, page_data |-> pd,
                        recommendations |-> <<>>, report |-> NoReport]
           /\ recommendations' = IF sh THEN <<>> ELSE recommendations
    /\ UNCHANGED <<page_data, pc, report, evaluated, none_keys, exception, call, earlier, http, cli>>

\* self.recommendations as the second thread reads it
other_recommendations ==
    IF other.shared THEN recommendations ELSE other.recommendations

\* the second thread runs its next rule method
OtherStep ==
    /\ other.pc \in DOMAIN NextPosition
    /\ LET recs == rule_method(other.pc, other_recommendations, other.page_data)
       IN  /\ recommendations' = IF other.shared THEN recs ELSE recommendations
           /\ other' = [other EXCEPT !.pc = NextPosition[other.pc],
                                     !.recommendations = IF other.shared THEN @ ELSE recs]
    /\ UNCHANGED <<page_data, pc, report, evaluated, none_keys, exception, call, earlier, http, cli>>

\* the second thread returns self._generate_report()
OtherReport ==
    /\ other.pc = "report"
    /\ \E now \in Times :
           other' = [other EXCEPT !.pc = "done",
                                  !.report = _generate_report(other_recommendations, now)]
    /\ UNCHANGED <<recommendations, page_data, pc, report, evaluated, none_keys, exception, call, earlier, http, cli>>

NextConc ==
    \/ CallConcurrent
    \/ OtherCall
    \/ OtherStep
    \/ OtherReport
    \/ TrustElements
    \/ UserExperience
    \/ PricingStrategy
    \/ SocialProof
    \/ CallToActions
    \/ ContentQuality
    \/ TechnicalElements
    \/ GenerateReport

SpecConc ==
    Init /\ [][NextConc]_vars

-----------------------------------------------------------------------------
(* The /analyze handler of web_interface.py.  A JSON value of the payload   *)
(* is a record tagged with its type; a JSON number is kept in tenths, so    *)
(* 2.5 is JNum(25) and 3 is JNum(30).  A float is in tenths as everywhere   *)
(* in the model, an int is in units.                                        *)

JNum(n) ==
    [t |-> "number", v |-> n]

JText(s) ==
    [t |-> "string", v |-> s]

JBool(b) ==
    [t |-> "bool", v |-> b]

JList(l) ==
    [t |-> "array", v |-> l]

JNull ==
    [t |-> "null"]

\* marks a key that the payload omits
Absent ==
    [t |-> "absent"]

DigitValue ==
    ("0" :> 0) @@ ("1" :> 1) @@ ("2" :> 2) @@ ("3" :> 3) @@ ("4" :> 4) @@
    ("5" :> 5) @@ ("6" :> 6) @@ ("7" :> 7) @@ ("8" :> 8) @@ ("9" :> 9)

IsDigits(s) ==
    Len(s) > 0 /\ \A i \in 1..Len(s) : s[i] \in DOMAIN DigitValue

RECURSIVE DigitsValue(_)
DigitsValue(s) ==
    IF Len(s) = 0 THEN 0
    ELSE DigitsValue(SubSeq(s, 1, Len(s) - 1)) * 10 + DigitValue[s[Len(s)]]

\* the result of a conversion: a value, or the exception raised
Converted(n) ==
    [ok |-> TRUE, value |-> n]

Failed(exception_type, message, x) ==
    [ok |-> FALSE, error |-> [exception |-> exception_type, message |-> message, of |-> x]]

\* int(x): a number is truncated, a bool is 0 or 1, a text must be a decimal
\* integer numeral; None and a list are a TypeError
int(x) ==
    CASE x.t = "number" -> Converted(x.v \div 10)
      [] x.t = "bool" -> Converted(IF x.v THEN 1 ELSE 0)
      [] x.t = "string" ->
             IF IsDigits(x.v) THEN Converted(DigitsValue(x.v))
             ELSE Failed("ValueError", "invalid literal for int() with base 10: ", x)
      [] OTHER ->
             Failed("TypeError", "int() argument must be a string, a bytes-like object or a real number, not ", x)

\* float(x): a text must be a decimal numeral, with at most one decimal here
float(x) ==
    CASE x.t = "number" -> Converted(x.v)
      [] x.t = "bool" -> Converted(IF x.v THEN 10 ELSE 0)
      [] x.t = "string" ->
             LET s == x.v
             IN  IF IsDigits(s) THEN Converted(DigitsValue(s) * 10)
                 ELSE IF /\ Len(s) >= 3
                         /\ s[Len(s) - 1] = "."
                         /\ IsDigits(SubSeq(s, 1, Len(s) - 2))
                         /\ IsDigits(<<s[Len(s)]>>)
                      THEN Converted(DigitsValue(SubSeq(s, 1, Len(s) - 2)) * 10
                                     + DigitValue[s[Len(s)]])
                      ELSE Failed("ValueError", "could not convert string to float: ", x)
      [] OTHER ->
             Failed("TypeError", "float() argument must be a string or a real number, not ", x)

\* the truth value Python gives x in `not x`
truth(x) ==
    CASE x.t = "bool" -> x.v
      [] x.t = "number" -> x.v # 0
      [] x.t \in {"string", "array"} -> Len(x.v) > 0
      [] OTHER -> FALSE

\* the payloads: the dict parsed by request.get_json(), without the omitted keys
Payloads ==
    {Omit(d, {k \in DOMAIN d : d[k] = Absent}) : d \in
        [price : {JNum(2490), JText(<<"a", "b", "c">>)},
         content : {JText(Join(<<F_regular_price, F_add_to_cart>>)), JNull},
         image_count : {Absent, JNum(27), JText(<<"3">>), JNull},
         cta_count : {JNum(20), JText(<<"2", ".", "5">>)},
         load_time : {JNum(31), JText(<<"2", ".", "5">>), JNull},
         mobile_optimized : {Absent, JBool(TRUE), JBool(FALSE), JText(<<"f", "a", "l", "s", "e">>)},
         benefits : {JList(BenefitList(4)), JNull}]}

\* the four conversions of the dict literal, in the order it evaluates them
conversions(data) ==
    <<float(Get(data, "price", JNum(0))),
      int(Get(data, "image_count", JNum(0))),
      int(Get(data, "cta_count", JNum(0))),
      float(Get(data, "load_time", JNum(0)))>>

\* the keys that reach page_data unconverted and hold null
null_keys(data) ==
    {k \in {"content", "benefits"} : k \in DOMAIN data /\ data[k] = JNull}

\* the page_data dict literal of the handler, once the conversions succeeded.
\* content and benefits are passed as they are (None is kept in none_keys);
\* mobile_optimized is passed as it is too: the engine reads it only through
\* `not`, so page_data keeps its truth value.
handler_page_data(data) ==
    LET c == conversions(data)
        content  == Get(data, "content", JText(<<>>))
        benefits == Get(data, "benefits", JList(<<>>))
    IN  PageData(Get(data, "url", JText(<<>>)).v, Get(data, "title", JText(<<>>)).v,
                 c[1].value,
                 IF content = JNull THEN None ELSE content.v,
                 c[2].value, c[3].value, c[4].value,
                 truth(Get(data, "mobile_optimized", JBool(FALSE))),
                 IF benefits = JNull THEN None ELSE benefits.v)

\* the JSON null
JsonNull ==
    "null"

\* jsonify on a list of recommendation dicts: every key is kept, None is null
jsonify_recs(l) ==
    [k \in 1..Len(l) |->
        [l[k] EXCEPT !.code_example = IF @ = None THEN JsonNull ELSE @]]

\* jsonify on the report
jsonify(r) ==
    [r EXCEPT !.recommendations_by_category =
        [i \in 1..Len(@) |-> <<@[i][1], jsonify_recs(@[i][2])>>]]

\* str(e) of the exception the engine raises on a None content (line 63) or
\* on None benefits (line 143)
exception_message(e) ==
    IF e = "AttributeError" THEN "'NoneType' object has no attribute 'lower'"
    ELSE "object of type 'NoneType' has no len()"

\* POST /analyze: a conversion of the dict literal raises; the except clause
\* answers 400 with str(e), and ConversionOptimizer is never constructed
AnalyzeCoercionError ==
    /\ http.pc = "idle"
    /\ \E data \in Payloads :
           LET c == conversions(data)
               failed == {i \in 1..Len(c) : ~c[i].ok}
               first == CHOOSE i \in failed : \A j \in failed : i <= j
           IN  /\ failed # {}
               /\ http' = [pc |-> "responded", data |-> data,
                           response |-> [success |-> FALSE, error |-> c[first].error,
                                         status |-> 400]]
    /\ UNCHANGED <<recommendations, page_data, pc, report, evaluated, none_keys, exception, call, earlier, other, cli>>

\* POST /analyze: the conversions succeed; a ConversionOptimizer is
\* constructed and analyze_page(page_data) is entered
AnalyzeCall ==
    /\ http.pc = "idle"
    /\ pc = "idle"
    /\ \E data \in Payloads :
           /\ \A i \in 1..4 : conversions(data)[i].ok
           /\ analyze_page(handler_page_data(data))
           /\ none_keys' = null_keys(data)
           /\ http' = [pc |-> "analyzing", data |-> data]
    /\ UNCHANGED <<earlier, other, cli>>

\* return jsonify({'success': True, 'report': report})
AnalyzeReturn ==
    /\ http.pc = "analyzing"
    /\ pc = "done"
    /\ http' = [pc |-> "responded", data |-> http.data,
                response |-> [success |-> TRUE, report |-> jsonify(report), status |-> 200]]
    /\ UNCHANGED <<recommendations, page_data, pc, report, evaluated, none_keys, exception, call, earlier, other, cli>>

\* except Exception as e: the engine raised; 400 with str(e)
AnalyzeExcept ==
    /\ http.pc = "analyzing"
    /\ pc = "raised"
    /\ http' = [pc |-> "responded", data |-> http.data,
                response |-> [success |-> FALSE,
                              error |-> [exception |-> exception, of |-> JNull,
                                         message |-> exception_message(exception)],
                              status |-> 400]]
    /\ UNCHANGED <<recommendations, page_data, pc, report, evaluated, none_keys, exception, call, earlier, other, cli>>

NextWeb ==
    \/ AnalyzeCoercionError
    \/ AnalyzeCall
    \/ AnalyzeReturn
    \/ AnalyzeExcept
    \/ TrustElements
    \/ UserExperience
    \/ PricingStrategy
    \/ SocialProof
    \/ CallToActions
    \/ ContentQuality
    \/ TechnicalElements
    \/ GenerateReport
    \/ Raise

SpecWeb ==
    Init /\ [][NextWeb]_vars

-----------------------------------------------------------------------------
(* Two callers, each with a ConversionOptimizer of its own, one after the   *)
(* other, with inputs that differ in the keys no rule method reads          *)

\* the dict pd with one more key, which no rule method reads
WithExtra(pd) ==
    [k \in (DOMAIN pd) \cup {"currency"} |-> IF k = "currency" THEN <<"U", "S", "D">> ELSE pd[k]]

\* two texts that mention the same keywords (warranty, regular price) in
\* different places and letter cases, and one that mentions sold out instead
PairContents ==
    {Join(<<F_warranty, F_regular_price>>),
     Join(<<F_regular_price, F_free_returns, lower(F_warranty)>>),
     Join(<<F_warranty, F_sold_out>>)}

\* pages with url, title and price empty, filled, left out, and with an extra key
PairPages ==
    LET filled(c, i) == PageData(DemoPage.url, DemoPage.title, DemoPage.price, c, i, 2, 30, TRUE, BenefitList(5))
        blank(c, i)  == PageData("", "", 0, c, i, 2, 30, TRUE, BenefitList(5))
    IN  UNION {{blank(c, i), filled(c, i), Omit(filled(c, i), {"url", "title", "price"}), WithExtra(blank(c, i))} :
                   c \in PairContents, i \in {2, 3}}

\* the first caller constructs an optimizer and calls analyze_page on it
FirstCall ==
    /\ pc = "idle"
    /\ \E pd \in PairPages : analyze_page(pd)
    /\ UNCHANGED <<none_keys, earlier, other, http, cli>>

\* once the first call has returned, the second caller constructs an
\* optimizer and calls analyze_page on it
SecondCall ==
    /\ pc = "done"
    /\ other.pc = "idle"
    /\ \E pd \in PairPages :
           other' = [pc |-> "trust", shared |-> FALSE, page_data |-> pd,
                     recommendations |-> <<>>, report |-> NoReport]
    /\ UNCHANGED <<recommendations, page_data, pc, report, evaluated, none_keys, exception, call, earlier, http, cli>>

NextPair ==
    \/ FirstCall
    \/ SecondCall
    \/ OtherStep
    \/ OtherReport
    \/ TrustElements
    \/ UserExperience
    \/ PricingStrategy
    \/ SocialProof
    \/ CallToActions
    \/ ContentQuality
    \/ TechnicalElements
    \/ GenerateReport

SpecPair ==
    Init /\ [][NextPair]_vars

-----------------------------------------------------------------------------
(* The command-line programs: main() of demo.py and the __main__ block of    *)
(* conversion_optimizer.py.  Each obtains a report and renders it section   *)
(* by section.  A dict of the report is a record here; the accesses the     *)
(* programs make on it are kept apart by kind: d[name], d.name,             *)
(* d.get(name) and name in d.                                               *)

\* the attributes of a dict object: its methods, never its keys
DictAttributes ==
    {"clear", "copy", "fromkeys", "get", "items", "keys", "pop", "popitem",
     "setdefault", "update", "values"}

\* the exception that the access `how` of `name` raises on a dict with the
\* given keys, or None
access_raises(keys, how, name) ==
    CASE how = "subscript" -> IF name \in keys THEN None ELSE "KeyError"
      [] how = "attribute" -> IF name \in DictAttributes THEN None ELSE "AttributeError"
      [] how = "get" -> None
      [] how = "in" -> None

Subscript(name) ==
    [how |-> "subscript", name |-> name]

Attribute(name) ==
    [how |-> "attribute", name |-> name]

\* the exception of the first access that raises when the loop body makes
\* `accesses`, in order, on each dict of `dicts`, or None; an empty list is
\* never accessed
first_error(dicts, accesses) ==
    LET raising == {p \in (1..Len(dicts)) \X (1..Len(accesses)) :
                        access_raises(DOMAIN dicts[p[1]], accesses[p[2]].how, accesses[p[2]].name) # None}
        first == CHOOSE p \in raising :
                     \A q \in raising : p[1] < q[1] \/ (p[1] = q[1] /\ p[2] <= q[2])
    IN  IF raising = {} THEN None
        ELSE access_raises(DOMAIN dicts[first[1]], accesses[first[2]].how, accesses[first[2]].name)

RECURSIVE all_recommendations(_, _)
\* the dicts met by "for category, recommendations in ...items(): for rec in
\* recommendations", from the i-th group on
all_recommendations(groups, i) ==
    IF i > Len(groups) THEN <<>> ELSE groups[i][2] \o all_recommendations(groups, i + 1)

\* the sections of each program, in the order they run
Sections ==
    [demo |-> <<"summary", "priority_distribution", "quick_wins", "recommendations",
                "implementation_priority", "end">>,
     main |-> <<"summary", "priority_distribution", "quick_wins", "recommendations",
                "serialized_recommendations", "json_report", "save", "end">>]

\* the dicts a section goes through and the accesses it makes on each of them
section_accesses(program, section, r) ==
    CASE section = "summary" ->
             [dicts |-> <<r>>,
              accesses |-> IF program = "demo"
                           THEN <<Subscript("total_recommendations"),
                                  Subscript("estimated_total_improvement")>>
                           ELSE <<Subscript("analysis_date"),
                                  Subscript("total_recommendations"),
                                  Subscript("estimated_total_improvement")>>]
      [] section = "priority_distribution" ->
             [dicts |-> <<r>>, accesses |-> <<Subscript("priority_distribution")>>]
      [] section = "quick_wins" ->
             [dicts |-> r.quick_wins,
              accesses |-> <<Attribute("title"), Attribute("impact"),
                             Attribute("estimated_improvement")>>]
      [] section = "recommendations" ->
             [dicts |-> all_recommendations(r.recommendations_by_category, 1),
              accesses |-> IF program = "demo"
                           THEN <<Subscript("title"), Subscript("priority"),
                                  Subscript("description"), Subscript("impact"),
                                  Subscript("implementation"),
                                  Subscript("estimated_improvement"),
                                  [how |-> "get", name |-> "code_example"]>>
                           ELSE <<Subscript("title"), Subscript("priority"),
                                  Subscript("description"), Subscript("impact"),
                                  Subscript("estimated_improvement")>>]
      [] section = "implementation_priority" ->
             [dicts |-> <<r>>, accesses |-> <<Subscript("implementation_priority")>>]
      [] section = "serialized_recommendations" ->
             [dicts |-> all_recommendations(r.recommendations_by_category, 1),
              accesses |-> <<Subscript("title"), Subscript("description"), Subscript("impact"),
                             Subscript("implementation"), Subscript("estimated_improvement"),
                             Subscript("priority"), Subscript("category"),
                             [how |-> "in", name |-> "code_example"],
                             Subscript("code_example")>>]
      [] section = "json_report" ->
             [dicts |-> r.quick_wins,
              accesses |-> <<Attribute("title"), Attribute("description"), Attribute("impact"),
                             Attribute("implementation"), Attribute("estimated_improvement"),
                             Attribute("priority"), Attribute("category")>>]
      [] section = "save" ->
             [dicts |-> <<>>, accesses |-> <<>>]
      [] section = "end" ->
             [dicts |-> <<>>, accesses |-> <<>>]

\* the pages whose reports the programs render: the page analyze_tapeplayers_page
\* builds, and the two pages of SeqPages, whose reports have no and one quick win
CliPages ==
    {DemoPage} \cup SeqPages

\* the module function analyze_tapeplayers_page: a new ConversionOptimizer
\* and analyze_page(page_data) on it
analyze_tapeplayers_page(pd) ==
    /\ pc = "idle"
    /\ analyze_page(pd)

\* a program is started and asks for its report
Start ==
    /\ cli.pc = "idle"
    /\ \E program \in DOMAIN Sections : \E pd \in CliPages :
           /\ analyze_tapeplayers_page(pd)
           /\ cli' = [cli EXCEPT !.program = program, !.pc = "analyzing"]
    /\ UNCHANGED <<none_keys, earlier, other, http>>

\* report = analyze_tapeplayers_page(): the program holds the report
Receive ==
    /\ cli.pc = "analyzing"
    /\ pc = "done"
    /\ cli' = [cli EXCEPT !.pc = Sections[cli.program][1]]
    /\ UNCHANGED <<recommendations, page_data, pc, report, evaluated, none_keys, exception, call, earlier, other, http>>

\* the place of the section the program is about to run
SectionPlace ==
    CHOOSE k \in 1..Len(Sections[cli.program]) : Sections[cli.program][k] = cli.pc

\* the program runs the section at its position: it goes on to the next
\* section, or ends after the last, or ends with the exception of an access
RunSection(section) ==
    /\ cli.program \in DOMAIN Sections
    /\ cli.pc = section
    /\ LET sa  == section_accesses(cli.program, section, report)
           err == first_error(sa.dicts, sa.accesses)
       IN  cli' = IF err # None
                  THEN [cli EXCEPT !.pc = "raised", !.exception = err]
                  ELSE [cli EXCEPT !.pc = IF SectionPlace = Len(Sections[cli.program])
                                          THEN "finished"
                                          ELSE Sections[cli.program][SectionPlace + 1],
                                   !.printed = Append(@, section)]
    /\ UNCHANGED <<recommendations, page_data, pc, report, evaluated, none_keys, exception, call, earlier, other, http>>

Summary ==
    RunSection("summary")

PriorityDistribution ==
    RunSection("priority_distribution")

QuickWins ==
    RunSection("quick_wins")

DetailedRecommendations ==
    RunSection("recommendations")

ImplementationPriorityOrder ==
    RunSection("implementation_priority")

SerializedRecommendations ==
    RunSection("serialized_recommendations")

JsonReport ==
    RunSection("json_report")

SaveReport ==
    RunSection("save")

End ==
    RunSection("end")

NextCli ==
    \/ Start
    \/ Receive
    \/ Summary
    \/ PriorityDistribution
    \/ QuickWins
    \/ DetailedRecommendations
    \/ ImplementationPriorityOrder
    \/ SerializedRecommendations
    \/ JsonReport
    \/ SaveReport
    \/ End
    \/ TrustElements
    \/ UserExperience
    \/ PricingStrategy
    \/ SocialProof
    \/ CallToActions
    \/ ContentQuality
    \/ TechnicalElements
    \/ GenerateReport

SpecCli ==
    Init /\ [][NextCli]_vars

-----------------------------------------------------------------------------
(* Vocabulary of the properties *)

\* the rule table: rule number |-> the recommendation the rule appends
RuleRec ==
    <<Rec1, Rec2, Rec3, Rec4, Rec5, Rec6, Rec7,
      Rec8, Rec9, Rec10, Rec11, Rec12, Rec13, Rec14>>

\* rule n has contributed its recommendation to the accumulator
Fired(n) ==
    \E i \in 1..Len(recommendations) : recommendations[i] = RuleRec[n]

FiredRules ==
    {n \in 1..14 : Fired(n)}

\* the fields of the input as the rules see them
Content ==
    Get(page_data, "content", <<>>)

ImageCount ==
    Get(page_data, "image_count", 0)

CtaCount ==
    Get(page_data, "cta_count", 0)

LoadTime ==
    Get(page_data, "load_time", 0)

MobileOptimized ==
    Get(page_data, "mobile_optimized", FALSE)

BenefitCount ==
    Len(Get(page_data, "benefits", <<>>))

LowerToUpper ==
    [a |-> "A", b |-> "B", c |-> "C", d |-> "D", e |-> "E", f |-> "F", g |-> "G",
     h |-> "H", i |-> "I", j |-> "J", k |-> "K", l |-> "L", m |-> "M", n |-> "N",
     o |-> "O", p |-> "P", q |-> "Q", r |-> "R", s |-> "S", t |-> "T", u |-> "U",
     v |-> "V", w |-> "W", x |-> "X", y |-> "Y", z |-> "Z"]

\* the lower-case keyword kw occurs in text, in any mix of upper and lower case
Mentions(kw, text) ==
    \E i \in 0..(Len(text) - Len(kw)) :
        \A j \in 1..Len(kw) :
            \/ text[i + j] = kw[j]
            \/ kw[j] \in DOMAIN LowerToUpper /\ text[i + j] = LowerToUpper[kw[j]]

\* a Python dict d (pairs in insertion order) equals the mapping f
DictIs(d, f) ==
    /\ Len(d) = Cardinality(DOMAIN f)
    /\ \A i \in 1..Len(d) : d[i][1] \in DOMAIN f /\ d[i][2] = f[d[i][1]]
    /\ \A i, j \in 1..Len(d) : d[i][1] = d[j][1] => i = j

\* the call has returned its report
Returned ==
    pc = "done"

-----------------------------------------------------------------------------
(* C1: keyword rules.  In every returned call, each absence rule (1 warranty, *)
(* 2 ssl/secure/trusted, 4 video, 7 customer reviews, 11 specifications,      *)
(* 12 faq) has fired iff its keyword does not occur in the content in any     *)
(* letter case, and each presence rule (5 regular price, 8 sold out, 9 add to *)
(* cart) has fired iff its keyword does occur, whatever the other fields are. *)
C1_KeywordRules ==
    Returned =>
        /\ Fired(1)  <=> ~Mentions(S_warranty, Content)
        /\ Fired(2)  <=> ~(\/ Mentions(S_ssl, Content)
                           \/ Mentions(S_secure, Content)
                           \/ Mentions(S_trusted, Content))
        /\ Fired(4)  <=> ~Mentions(S_video, Content)
        /\ Fired(7)  <=> ~Mentions(S_customer_reviews, Content)
        /\ Fired(11) <=> ~Mentions(S_specifications, Content)
        /\ Fired(12) <=> ~Mentions(S_faq, Content)
        /\ Fired(5)  <=> Mentions(S_regular_price, Content)
        /\ Fired(8)  <=> Mentions(S_sold_out, Content)
        /\ Fired(9)  <=> Mentions(S_add_to_cart, Content)

\* a returned call whose content is "SSL Regular price": the upper-case SSL
\* silences rule 2 and the mixed-case "Regular price" fires rule 5
C1_Witness ==
    /\ Returned
    /\ Content = Join(<<F_ssl, F_regular_price>>)
    /\ ~Fired(2)
    /\ Fired(5)
    /\ Fired(1)
    /\ ~Fired(8)

-----------------------------------------------------------------------------
(* C2: threshold and flag rules, with exact boundaries.  In every returned   *)
(* call rule 3 has fired iff image_count < 3, rule 6 iff len(benefits) < 5,  *)
(* rule 10 iff cta_count < 2, rule 14 iff load_time > 3.0 s (30 tenths) and  *)
(* rule 13 iff mobile_optimized is false; the rules are silent exactly at    *)
(* 3 images, 5 benefits, 2 CTAs and 3.0 s.                                   *)
C2_ThresholdRules ==
    Returned =>
        /\ Fired(3)  <=> ImageCount < 3
        /\ Fired(6)  <=> BenefitCount < 5
        /\ Fired(10) <=> CtaCount < 2
        /\ Fired(14) <=> LoadTime > 30
        /\ Fired(13) <=> (MobileOptimized = FALSE)
        /\ ImageCount = 3 => ~Fired(3)
        /\ BenefitCount = 5 => ~Fired(6)
        /\ CtaCount = 2 => ~Fired(10)
        /\ LoadTime = 30 => ~Fired(14)

\* a returned call with every count exactly on its threshold: none of the
\* threshold rules has fired
C2_Witness ==
    /\ Returned
    /\ ImageCount = 3 /\ BenefitCount = 5 /\ CtaCount = 2 /\ LoadTime = 30
    /\ MobileOptimized
    /\ FiredRules \cap {3, 6, 10, 13, 14} = {}

\* a returned call with every count just past its threshold: all of the
\* threshold rules have fired
C2_WitnessBelow ==
    /\ Returned
    /\ ImageCount = 2 /\ BenefitCount = 4 /\ CtaCount = 1 /\ LoadTime = 31
    /\ ~MobileOptimized
    /\ {3, 6, 10, 13, 14} \subseteq FiredRules

-----------------------------------------------------------------------------
\* no keyword of any rule occurs in the content
NoKeyword ==
    \A kw \in {S_warranty, S_ssl, S_secure, S_trusted, S_video, S_regular_price,
                S_customer_reviews, S_sold_out, S_add_to_cart, S_specifications, S_faq} :
        ~Mentions(kw, Content)

\* every count is 0, the flag is false and there are no benefits
ZeroCounts ==
    /\ ImageCount = 0
    /\ CtaCount = 0
    /\ LoadTime = 0
    /\ MobileOptimized = FALSE
    /\ BenefitCount = 0

(* C3, as stated: for content "" (or any keyword-free content) with all     *)
(* counts 0/false, exactly rules 1,2,3,4,6,7,11,12,13 fire, the total is 9  *)
(* and the distribution is {High: 5, Medium: 3, Low: 1}.                    *)
C3_Original ==
    (Returned /\ NoKeyword /\ ZeroCounts) =>
        /\ FiredRules = {1, 2, 3, 4, 6, 7, 11, 12, 13}
        /\ report.total_recommendations = 9
        /\ DictIs(report.priority_distribution, [High |-> 5, Medium |-> 3, Low |-> 1])

(* C3, amended: for content "" (or any keyword-free content) with all       *)
(* counts 0/false, exactly rules 1,2,3,4,6,7,10,11,12,13 fire (cta_count 0  *)
(* is below 2, so rule 10 fires too), the total is 10 and the distribution  *)
(* is {High: 5, Medium: 4, Low: 1}.                                         *)
C3_DefaultsFireTen ==
    (Returned /\ NoKeyword /\ ZeroCounts) =>
        /\ FiredRules = {1, 2, 3, 4, 6, 7, 10, 11, 12, 13}
        /\ report.total_recommendations = 10
        /\ DictIs(report.priority_distribution, [High |-> 5, Medium |-> 4, Low |-> 1])

\* the call on {content: "", 0, 0, 0, false, []} has returned
C3_Witness ==
    /\ Returned
    /\ Content = <<>>
    /\ ZeroCounts
    /\ Fired(10)
    /\ report.total_recommendations = 10

\* the same for a non-empty content without keywords
C3_WitnessText ==
    /\ Returned
    /\ Content = F_free_returns
    /\ ZeroCounts
    /\ report.total_recommendations = 10

-----------------------------------------------------------------------------
(* C4, as stated: for the demo page of analyze_tapeplayers_page exactly     *)
(* rules 2,4,5,7,10,11,12 fire and total_recommendations is 7.              *)
C4_Original ==
    (Returned /\ page_data = DemoPage) =>
        /\ FiredRules = {2, 4, 5, 7, 10, 11, 12}
        /\ report.total_recommendations = 7

(* C4, amended: for the demo page of analyze_tapeplayers_page exactly rules *)
(* 2,5,7,10,11,12 fire and total_recommendations is 6: the content's        *)
(* "vintage videos on tape" contains "video", so rule 4 does not fire.      *)
C4_DemoFiresSix ==
    (Returned /\ page_data = DemoPage) =>
        /\ FiredRules = {2, 5, 7, 10, 11, 12}
        /\ report.total_recommendations = 6

\* the call on the demo page has returned, and "video" occurs in its content
C4_Witness ==
    /\ Returned
    /\ page_data = DemoPage
    /\ Mentions(S_video, Content)
    /\ ~Fired(4)
    /\ Fired(5)

-----------------------------------------------------------------------------
\* the inputs of C5: every reassuring keyword, no warning keyword, counts at
\* or above their thresholds
NothingToReport ==
    /\ \A kw \in {S_warranty, S_ssl, S_video, S_customer_reviews, S_specifications, S_faq} :
           Mentions(kw, Content)
    /\ \A kw \in {S_regular_price, S_sold_out, S_add_to_cart} :
           ~Mentions(kw, Content)
    /\ ImageCount >= 3
    /\ CtaCount >= 2
    /\ BenefitCount >= 5
    /\ MobileOptimized = TRUE
    /\ LoadTime <= 30

(* C5: for every such input no rule fires: total_recommendations is 0 and   *)
(* priority_distribution, recommendations_by_category,                      *)
(* implementation_priority and quick_wins are all empty.                    *)
C5_NothingFires ==
    (Returned /\ NothingToReport) =>
        /\ FiredRules = {}
        /\ report.total_recommendations = 0
        /\ Len(report.priority_distribution) = 0
        /\ Len(report.recommendations_by_category) = 0
        /\ Len(report.implementation_priority) = 0
        /\ Len(report.quick_wins) = 0

\* a returned call on such an input, with the counts exactly on the thresholds
C5_Witness ==
    /\ Returned
    /\ NothingToReport
    /\ ImageCount = 3 /\ CtaCount = 2 /\ BenefitCount = 5 /\ LoadTime = 30
    /\ report.total_recommendations = 0

-----------------------------------------------------------------------------
\* rec is the recommendation of some rule
IsRuleRec(rec) ==
    \E n \in 1..14 : RuleRec[n] = rec

\* the number of the rule whose recommendation rec is
RuleOf(rec) ==
    CHOOSE n \in 1..14 : RuleRec[n] = rec

(* C6: at every point of a call the accumulator is a subsequence of the     *)
(* rule table: its entries are rule recommendations in strictly increasing  *)
(* rule number, each one of a rule already evaluated; the rules are         *)
(* evaluated in the order 1..14, and a report exists only once all 14 have  *)
(* been evaluated.                                                          *)
C6_RuleOrder ==
    /\ \A i \in 1..Len(recommendations) :
           /\ IsRuleRec(recommendations[i])
           /\ RuleOf(recommendations[i]) <= Len(evaluated)
    /\ \A i, j \in 1..Len(recommendations) :
           i < j => RuleOf(recommendations[i]) < RuleOf(recommendations[j])
    /\ \A k \in 1..Len(evaluated) : evaluated[k] = k
    /\ Returned => Len(evaluated) = 14
    /\ Returned => report.total_recommendations = Len(recommendations)

\* a returned call in which the first and the last rule, and ten others, fired
C6_Witness ==
    /\ Returned
    /\ Fired(1)
    /\ Fired(14)
    /\ Len(recommendations) >= 12
    /\ recommendations[1] = Rec1
    /\ recommendations[Len(recommendations)] = Rec14

-----------------------------------------------------------------------------
\* the place of the entry titled t in the accumulator
AccIndex(t) ==
    CHOOSE i \in 1..Len(recommendations) : recommendations[i].title = t

\* High before Medium before Low
Tier(priority) ==
    CASE priority = "HIGH" -> 1
      [] priority = "MEDIUM" -> 2
      [] priority = "LOW" -> 3

(* C7: implementation_priority is a permutation of the accumulator's titles *)
(* sorted by tier (High, Medium, Low) and, within a tier, by accumulator    *)
(* order: no Medium title precedes a High one, no Low title a Medium one.   *)
C7_ImplementationPriority ==
    Returned =>
        LET ip == report.implementation_priority
        IN  /\ Len(ip) = Len(recommendations)
            /\ \A i \in 1..Len(recommendations) :
                   \E k \in 1..Len(ip) : ip[k] = recommendations[i].title
            /\ \A k, l \in 1..Len(ip) : ip[k] = ip[l] => k = l
            /\ \A k, l \in 1..Len(ip) :
                   k < l =>
                       LET a == AccIndex(ip[k])
                           b == AccIndex(ip[l])
                           ta == Tier(recommendations[a].priority)
                           tb == Tier(recommendations[b].priority)
                       IN  ta < tb \/ (ta = tb /\ a < b)

\* a returned call with two High, two Medium and the Low rule fired, whose
\* implementation_priority differs from the accumulator order
C7_Witness ==
    /\ Returned
    /\ {1, 2, 3, 4, 12} \subseteq FiredRules
    /\ report.implementation_priority[2] = Rec3.title
    /\ recommendations[2] = Rec2
    /\ report.implementation_priority[Len(report.implementation_priority)] = Rec12.title

-----------------------------------------------------------------------------
\* the places of the High entries in the accumulator
HighIndexes ==
    {i \in 1..Len(recommendations) : recommendations[i].priority = "HIGH"}

\* the place of the k-th High entry of the accumulator
NthHigh(k) ==
    CHOOSE i \in HighIndexes : Cardinality({j \in HighIndexes : j < i}) = k - 1

(* C8: quick_wins has length min(3, number of High recommendations) and its *)
(* k-th entry is the k-th High recommendation of the accumulator; when only *)
(* rules 1 and 3 fire as High it is [rule 1, rule 3].                       *)
C8_QuickWins ==
    Returned =>
        LET qw == report.quick_wins
            nHigh == Cardinality(HighIndexes)
        IN  /\ Len(qw) = IF nHigh < 3 THEN nHigh ELSE 3
            /\ \A k \in 1..Len(qw) :
                   /\ qw[k].title = recommendations[NthHigh(k)].title
                   /\ qw[k].description = recommendations[NthHigh(k)].description
                   /\ qw[k].priority = "High"
            /\ FiredRules \cap {1, 3, 6, 7, 9, 13} = {1, 3} =>
                   /\ Len(qw) = 2
                   /\ qw[1].title = "Add Prominent Warranty Information"
                   /\ qw[2].title = "Add More Product Images"

\* a returned call in which rules 1 and 3 are the only High rules fired and the
\* Medium rule 2 lies between them in the accumulator
C8_Witness ==
    /\ Returned
    /\ FiredRules \cap {1, 3, 6, 7, 9, 13} = {1, 3}
    /\ Fired(2)
    /\ Len(report.quick_wins) = 2

\* a returned call with more than three High recommendations
C8_WitnessTruncated ==
    /\ Returned
    /\ Cardinality(HighIndexes) > 3
    /\ Len(report.quick_wins) = 3

-----------------------------------------------------------------------------
\* how many accumulated recommendations have the priority displayed as p
CountOf(p) ==
    Cardinality({i \in 1..Len(recommendations) : Priority[recommendations[i].priority] = p})

(* C9: priority_distribution has exactly one key for each priority that     *)
(* occurs in the accumulator, mapped to the number of accumulated           *)
(* recommendations of that priority, and no key for a priority that does    *)
(* not occur: no entry is zero.                                             *)
C9_PriorityDistribution ==
    Returned =>
        LET dist == report.priority_distribution
        IN  /\ \A i \in 1..Len(dist) :
                   /\ dist[i][1] \in {"High", "Medium", "Low"}
                   /\ dist[i][2] = CountOf(dist[i][1])
                   /\ dist[i][2] > 0
            /\ \A i, j \in 1..Len(dist) : dist[i][1] = dist[j][1] => i = j
            /\ \A p \in {"High", "Medium", "Low"} :
                   CountOf(p) > 0 => \E i \in 1..Len(dist) : dist[i][1] = p

\* a returned call in which High and Medium rules fired and the Low rule did not
C9_Witness ==
    /\ Returned
    /\ ~Fired(12)
    /\ CountOf("High") >= 2
    /\ CountOf("Medium") >= 2
    /\ Len(report.priority_distribution) = 2

-----------------------------------------------------------------------------
\* the display strings of the categories
CategoryValues ==
    {Category[c] : c \in DOMAIN Category}

\* the accumulator entries whose category is displayed as c, in accumulator order
OfCategory(c) ==
    SelectSeq(recommendations, LAMBDA r : Category[r.category] = c)

(* C10: recommendations_by_category has exactly one key for each category   *)
(* with a fired recommendation; the group of a category lists the           *)
(* accumulator entries of that category, all of them and in accumulator     *)
(* order, so every accumulator entry is in exactly one group.               *)
C10_GroupedByCategory ==
    Returned =>
        LET groups == report.recommendations_by_category
        IN  /\ \A i, j \in 1..Len(groups) : groups[i][1] = groups[j][1] => i = j
            /\ \A i \in 1..Len(groups) :
                   LET c == groups[i][1]
                       g == groups[i][2]
                   IN  /\ c \in CategoryValues
                       /\ Len(g) > 0
                       /\ Len(g) = Len(OfCategory(c))
                       /\ \A k \in 1..Len(g) :
                              /\ g[k].title = OfCategory(c)[k].title
                              /\ g[k].category = c
            /\ \A c \in CategoryValues :
                   Len(OfCategory(c)) > 0 => \E i \in 1..Len(groups) : groups[i][1] = c

\* a returned call with both Trust rules fired and no Technical rule fired
C10_Witness ==
    /\ Returned
    /\ Fired(1) /\ Fired(2)
    /\ ~Fired(13) /\ ~Fired(14)
    /\ Len(DictGet(report.recommendations_by_category, "Trust & Credibility", <<>>)) = 2
    /\ ~HasKey(report.recommendations_by_category, "Technical")

-----------------------------------------------------------------------------
(* Enumerants and fixed text in the report *)

PriorityValues ==
    {Priority[p] : p \in DOMAIN Priority}

(* C16: every category and priority value in the report is the enumerant's  *)
(* display string: the keys of recommendations_by_category and of           *)
(* priority_distribution, and the category and priority fields of every     *)
(* grouped recommendation and of every quick win.                           *)
C16_DisplayStrings ==
    Returned =>
        LET groups == report.recommendations_by_category
            counts == report.priority_distribution
            wins   == report.quick_wins
        IN  /\ \A i \in 1..Len(groups) :
                   /\ groups[i][1] \in CategoryValues
                   /\ \A k \in 1..Len(groups[i][2]) :
                          /\ groups[i][2][k].category \in CategoryValues
                          /\ groups[i][2][k].priority \in PriorityValues
            /\ \A i \in 1..Len(counts) : counts[i][1] \in PriorityValues
            /\ \A i \in 1..Len(wins) :
                   /\ wins[i].category \in CategoryValues
                   /\ wins[i].priority \in PriorityValues

\* a returned report with a grouped recommendation of the Trust category and
\* a quick win whose priority is displayed as High
C16_Witness ==
    /\ Returned
    /\ Fired(1)
    /\ report.recommendations_by_category[1][1] = "Trust & Credibility"
    /\ report.recommendations_by_category[1][2][1].priority = "High"
    /\ report.quick_wins[1].priority = "High"
    /\ report.quick_wins[1].category = "Trust & Credibility"

(* C20: estimated_total_improvement is the fixed text "40-60% increase in   *)
(* conversion rate" in every report, whatever rules fired, none included.   *)
C20_FixedImprovementText ==
    Returned => report.estimated_total_improvement = "40-60% increase in conversion rate"

\* a returned report of a call in which no rule fired, carrying the text
C20_Witness ==
    /\ Returned
    /\ FiredRules = {}
    /\ report.total_recommendations = 0
    /\ report.estimated_total_improvement = "40-60% increase in conversion rate"

-----------------------------------------------------------------------------
(* Absent and malformed optional fields *)

\* the documented defaults of the optional fields
Defaults ==
    [content |-> <<>>, image_count |-> 0, cta_count |-> 0, load_time |-> 0,
     mobile_optimized |-> FALSE, benefits |-> <<>>]

\* the dict pd with the default supplied for every optional key it omits
WithDefaults(pd) ==
    [k \in (DOMAIN pd) \cup OptionalKeys |-> IF k \in DOMAIN pd THEN pd[k] ELSE Defaults[k]]

\* the dict pd with the default in place of every None
NoneAsDefault(pd, nk) ==
    [k \in DOMAIN pd |-> IF k \in nk THEN Defaults[k] ELSE pd[k]]

\* a report without its time stamp
ModuloDate(r) ==
    [r EXCEPT !.analysis_date = 0]

\* the call has ended by raising
Raised ==
    pc = "raised"

(* C13: the engine never fails on malformed optional fields: a call whose   *)
(* page_data holds None at an optional field does not raise, and the report *)
(* it returns is the report for the page with that field at its default.    *)
C13_MalformedAsDefault ==
    none_keys # {} =>
        /\ ~Raised
        /\ Returned =>
               ModuloDate(report) =
                   ModuloDate(analyze_page_result(
                       WithDefaults(NoneAsDefault(page_data, none_keys)), 0))

(* C14: absent fields equal their defaults: a call whose page_data omits    *)
(* any subset of the six optional keys does not raise and returns the same  *)
(* report, analysis_date aside, as a call that supplies the defaults        *)
(* "", 0, 0, 0, false, [] for the omitted keys.                             *)
C14_AbsentAsDefault ==
    none_keys = {} =>
        /\ ~Raised
        /\ Returned =>
               ModuloDate(report) = ModuloDate(analyze_page_result(WithDefaults(page_data), 0))

\* analyze_page({}) has returned its report of ten recommendations
C14_Witness ==
    /\ Returned
    /\ DOMAIN page_data = {}
    /\ report.total_recommendations = 10

\* a call that omits image_count and benefits only has returned
C14_WitnessPartial ==
    /\ Returned
    /\ OptionalKeys \ DOMAIN page_data = {"image_count", "benefits"}
    /\ Fired(3) /\ Fired(6)

-----------------------------------------------------------------------------
(* Repeated calls on one instance *)

\* the earlier calls of analyze_page that returned a report for the input of
\* the present call
EarlierSameInput ==
    {i \in 1..Len(earlier) :
        /\ earlier[i].call = "analyze_page"
        /\ earlier[i].pc = "done"
        /\ earlier[i].none_keys = none_keys
        /\ earlier[i].page_data = page_data}

(* C11: idempotence: a call of analyze_page returns a report equal in every *)
(* field except analysis_date to the report every earlier call with the     *)
(* same input returned, on the same instance and consecutive calls included.*)
C11_Idempotent ==
    (Returned /\ call = "analyze_page") =>
        \A i \in EarlierSameInput : ModuloDate(earlier[i].report) = ModuloDate(report)

\* the second of two consecutive calls with the same input has returned, at a
\* later instant than the first
C11_Witness ==
    /\ Returned /\ call = "analyze_page"
    /\ Len(earlier) > 0
    /\ Len(earlier) \in EarlierSameInput
    /\ earlier[Len(earlier)].report.analysis_date # report.analysis_date
    /\ report.total_recommendations = 3

(* C17: no state survives across calls: after any sequence of earlier calls *)
(* on the instance (analyze_page, _analyze_tapeplayers_page, a call that    *)
(* raised part-way), analyze_page(X) returns the report, analysis_date      *)
(* aside, that a newly constructed instance returns for X.                  *)
C17_NoStateSurvives ==
    (Returned /\ call = "analyze_page") =>
        ModuloDate(report) = ModuloDate(analyze_page_result(page_data, 0))

\* analyze_page has returned after a _analyze_tapeplayers_page call and a call
\* that raised with recommendations in the accumulator
C17_Witness ==
    /\ Returned /\ call = "analyze_page"
    /\ Len(earlier) = 2
    /\ earlier[1].call = "_analyze_tapeplayers_page" /\ earlier[1].pc = "done"
    /\ earlier[1].report.total_recommendations = 17
    /\ earlier[2].pc = "raised"

-----------------------------------------------------------------------------
(* Concurrent calls *)

\* each thread that has returned holds the report of an isolated evaluation
\* of its own input
IsolatedReports ==
    /\ Returned =>
           ModuloDate(report) = ModuloDate(analyze_page_result(page_data, 0))
    /\ other.pc = "done" =>
           ModuloDate(other.report) = ModuloDate(analyze_page_result(other.page_data, 0))

(* C12: concurrent evaluations need no locking: in every interleaving of    *)
(* the steps of two analyze_page calls, whether the callers share one       *)
(* instance or hold one each, each call returns the report of a sequential, *)
(* isolated evaluation of its own input.                                    *)
C12_NoLockingNeeded ==
    (pc # "idle" /\ other.pc # "idle" /\ page_data # other.page_data) => IsolatedReports

\* the part of C12 that the code keeps: callers that hold an instance each
C12_OwnInstances ==
    ~other.shared => IsolatedReports

-----------------------------------------------------------------------------
(* The /analyze handler *)

\* the handler has answered the request
Responded ==
    http.pc = "responded"

\* the numeric fields of the payload, in the order the handler converts them
NumericFields ==
    <<"price", "image_count", "cta_count", "load_time">>

\* the numeric fields of the payload that cannot be coerced
Uncoercible(data) ==
    {i \in 1..Len(NumericFields) : ~conversions(data)[i].ok}

\* the recommendation dicts of the JSON report of the response
JsonRecs ==
    LET groups == http.response.report.recommendations_by_category
    IN  UNION {{groups[i][2][k] : k \in 1..Len(groups[i][2])} : i \in 1..Len(groups)}

\* the titles of the rules that declare a code_example
TitlesWithExample ==
    {RuleRec[n].title : n \in {1, 5, 7, 9}}

(* C15: in the report serialized to JSON, a recommendation of a rule that   *)
(* declares no code_example (rules 2,3,4,6,8,10,11,12,13,14) has no         *)
(* code_example key, rather than the key with a null value; only the        *)
(* recommendations of rules 1,5,7,9 carry the key.                          *)
C15_CodeExampleOmitted ==
    (Responded /\ http.response.success) =>
        \A d \in JsonRecs :
            /\ "code_example" \in DOMAIN d <=> d.title \in TitlesWithExample
            /\ "code_example" \in DOMAIN d => d.code_example # JsonNull

(* C18: when a numeric field of the payload (price, image_count, cta_count, *)
(* load_time) cannot be coerced, the engine is not invoked and the response *)
(* is success=false with the coercion error's message and status 400; when  *)
(* all coercions succeed the response is success=true with the report.      *)
C18_CoercionErrors ==
    Responded =>
        LET bad == Uncoercible(http.data)
        IN  IF bad # {}
            THEN /\ call = None
                 /\ http.response.success = FALSE
                 /\ http.response.status = 400
                 /\ \E i \in bad : http.response.error = conversions(http.data)[i].error
            ELSE /\ http.response.success = TRUE
                 /\ http.response.status = 200
                 /\ ModuloDate(http.response.report) = ModuloDate(jsonify(report))

\* the part of C18 that the code keeps: the answer to an uncoercible field
C18_UncoercibleRejected ==
    (Responded /\ Uncoercible(http.data) # {}) =>
        /\ call = None
        /\ http.response.success = FALSE
        /\ http.response.status = 400
        /\ \E i \in Uncoercible(http.data) :
               http.response.error = conversions(http.data)[i].error

\* the payload supplies mobile_optimized with a value that is no boolean
NonBooleanFlag(data) ==
    "mobile_optimized" \in DOMAIN data /\ data.mobile_optimized.t # "bool"

(* C19: a payload whose mobile_optimized cannot be coerced to a boolean     *)
(* (the text "false", a number) is rejected with success=false and status   *)
(* 400, like an uncoercible numeric field, and is not passed to the engine. *)
C19_NonBooleanRejected ==
    (Responded /\ NonBooleanFlag(http.data)) =>
        /\ http.response.success = FALSE
        /\ http.response.status = 400

-----------------------------------------------------------------------------
(* Counts of a report *)

RECURSIVE SumOfValues(_, _)
\* the sum of the values of the dict d from its i-th pair on
SumOfValues(d, i) ==
    IF i > Len(d) THEN 0 ELSE d[i][2] + SumOfValues(d, i + 1)

RECURSIVE SumOfLengths(_, _)
\* the sum of the lengths of the lists that are the values of the dict d
SumOfLengths(d, i) ==
    IF i > Len(d) THEN 0 ELSE Len(d[i][2]) + SumOfLengths(d, i + 1)

(* C22: count consistency.  In every returned report total_recommendations  *)
(* equals the sum of the priority_distribution values, the sum of the       *)
(* lengths of the recommendations_by_category groups, and the length of     *)
(* implementation_priority.                                                 *)
C22_CountConsistency ==
    Returned =>
        /\ report.total_recommendations = SumOfValues(report.priority_distribution, 1)
        /\ report.total_recommendations = SumOfLengths(report.recommendations_by_category, 1)
        /\ report.total_recommendations = Len(report.implementation_priority)

\* a returned report with all three priorities and several categories, some
\* of them with two entries
C22_Witness ==
    /\ Returned
    /\ report.total_recommendations >= 9
    /\ Len(report.priority_distribution) = 3
    /\ Len(report.recommendations_by_category) >= 5
    /\ \E i \in 1..Len(report.recommendations_by_category) :
           Len(report.recommendations_by_category[i][2]) = 2

-----------------------------------------------------------------------------
(* C23: in every returned report the titles of quick_wins, in order, are    *)
(* the first min(3, h) elements of implementation_priority, where h is      *)
(* priority_distribution["High"], or 0 without that key; every quick win    *)
(* has priority "High".                                                     *)
C23_QuickWinsLeadThePriority ==
    Returned =>
        LET qw == report.quick_wins
            ip == report.implementation_priority
            h  == DictGet(report.priority_distribution, "High", 0)
        IN  /\ Len(qw) = IF h < 3 THEN h ELSE 3
            /\ Len(qw) <= Len(ip)
            /\ \A k \in 1..Len(qw) :
                   /\ qw[k].title = ip[k]
                   /\ qw[k].priority = "High"

\* a returned report with more than three High recommendations, the first of
\* them after a Medium one in the accumulator
C23_Witness ==
    /\ Returned
    /\ DictGet(report.priority_distribution, "High", 0) > 3
    /\ Len(report.quick_wins) = 3
    /\ recommendations[1].priority = "MEDIUM"
    /\ report.quick_wins[3].title = report.implementation_priority[3]

\* a returned report with Medium recommendations and no High one
C23_WitnessNoHigh ==
    /\ Returned
    /\ ~HasKey(report.priority_distribution, "High")
    /\ report.total_recommendations > 0
    /\ report.quick_wins = <<>>

-----------------------------------------------------------------------------
\* the rules of each priority in the rule table
HighRules ==
    {n \in 1..14 : RuleRec[n].priority = "HIGH"}

MediumRules ==
    {n \in 1..14 : RuleRec[n].priority = "MEDIUM"}

LowRules ==
    {n \in 1..14 : RuleRec[n].priority = "LOW"}

\* how many times rule n's recommendation is in the accumulator
TimesFired(n) ==
    Cardinality({i \in 1..Len(recommendations) : recommendations[i] = RuleRec[n]})

(* C24: bounds of analyze_page.  In every returned call each rule has       *)
(* contributed at most one recommendation and nothing else is in the        *)
(* accumulator, so no title occurs twice in the report, total_              *)
(* recommendations is between 0 and 14, at most 6 recommendations are High  *)
(* (rules 1, 3, 6, 7, 9, 13), at most 7 Medium (rules 2, 4, 5, 8, 10, 11,   *)
(* 14), at most 1 Low (rule 12), and every category group has at most two   *)
(* entries.                                                                 *)
C24_Bounds ==
    (Returned /\ call = "analyze_page") =>
        LET ip     == report.implementation_priority
            dist   == report.priority_distribution
            groups == report.recommendations_by_category
        IN  /\ \A n \in 1..14 : TimesFired(n) <= 1
            /\ \A i \in 1..Len(recommendations) :
                   \E n \in 1..14 : recommendations[i] = RuleRec[n]
            /\ \A k, l \in 1..Len(ip) : ip[k] = ip[l] => k = l
            /\ report.total_recommendations \in 0..14
            /\ HighRules = {1, 3, 6, 7, 9, 13}
            /\ MediumRules = {2, 4, 5, 8, 10, 11, 14}
            /\ LowRules = {12}
            /\ DictGet(dist, "High", 0) <= 6
            /\ DictGet(dist, "Medium", 0) <= 7
            /\ DictGet(dist, "Low", 0) <= 1
            /\ DictGet(dist, "High", 0) = Cardinality(FiredRules \cap HighRules)
            /\ DictGet(dist, "Medium", 0) = Cardinality(FiredRules \cap MediumRules)
            /\ DictGet(dist, "Low", 0) = Cardinality(FiredRules \cap LowRules)
            /\ \A i \in 1..Len(groups) : Len(groups[i][2]) <= 2

\* a returned call in which every rule fired: every bound is attained
C24_Witness ==
    /\ Returned
    /\ call = "analyze_page"
    /\ FiredRules = 1..14
    /\ report.total_recommendations = 14
    /\ DictIs(report.priority_distribution, [High |-> 6, Medium |-> 7, Low |-> 1])
    /\ \A i \in 1..Len(report.recommendations_by_category) :
           Len(report.recommendations_by_category[i][2]) = 2

-----------------------------------------------------------------------------
\* the categories of the rule methods, in the order analyze_page calls them
RuleCategories ==
    <<"Trust & Credibility", "User Experience", "Pricing & Value", "Social Proof",
      "Call to Action", "Content Quality", "Technical">>

\* the place of the category c in RuleCategories
CategoryPlace(c) ==
    CHOOSE k \in 1..Len(RuleCategories) : RuleCategories[k] = c

(* C27: a report returned by analyze_page has no "Overall Performance"      *)
(* group: the keys of recommendations_by_category are among Trust &         *)
(* Credibility, User Experience, Pricing & Value, Social Proof, Call to     *)
(* Action, Content Quality, Technical, and appear in that relative order.   *)
(* A report with an "Overall Performance" group comes from                  *)
(* _analyze_tapeplayers_page.                                               *)
C27_CategoryKeys ==
    Returned =>
        LET keys == DictKeys(report.recommendations_by_category)
        IN  /\ call = "analyze_page" =>
                   /\ \A i \in 1..Len(keys) :
                          /\ keys[i] # "Overall Performance"
                          /\ \E k \in 1..Len(RuleCategories) : keys[i] = RuleCategories[k]
                   /\ \A i, j \in 1..Len(keys) :
                          i < j => CategoryPlace(keys[i]) < CategoryPlace(keys[j])
            /\ HasKey(report.recommendations_by_category, "Overall Performance") =>
                   call = "_analyze_tapeplayers_page"

\* a report of analyze_page with all seven groups
C27_Witness ==
    /\ Returned
    /\ call = "analyze_page"
    /\ DictKeys(report.recommendations_by_category) = RuleCategories

\* a report of analyze_page that skips categories: the first group is not
\* Trust & Credibility and a later category is missing as well
C27_WitnessGaps ==
    /\ Returned
    /\ call = "analyze_page"
    /\ Len(report.recommendations_by_category) \in 2..5
    /\ report.recommendations_by_category[1][1] = "User Experience"
    /\ ~HasKey(report.recommendations_by_category, "Social Proof")
    /\ HasKey(report.recommendations_by_category, "Technical")

\* a report of _analyze_tapeplayers_page: it has the Overall Performance group
\* and its first group is Technical
C27_WitnessTapeplayers ==
    /\ Returned
    /\ call = "_analyze_tapeplayers_page"
    /\ HasKey(report.recommendations_by_category, "Overall Performance")
    /\ report.recommendations_by_category[1][1] = "Technical"

-----------------------------------------------------------------------------
(* _analyze_tapeplayers_page against analyze_page *)

\* the recommendations of the three _add_ methods, in call order
FixedRecs ==
    <<SpeedRec1, SpeedRec2, ScoringRec1, ScoringRec2, RevenueRec1, RevenueRec2, RevenueRec3>>

\* the accumulator from its n-th entry on
From(recs, n) ==
    SubSeq(recs, n, Len(recs))

(* C21: when _analyze_tapeplayers_page returns, its accumulator is the 7    *)
(* fixed recommendations, all High (2 speed, 2 scoring, 3 revenue loss, in  *)
(* that order), followed by the accumulator of analyze_page({}); its report *)
(* is _generate_report of that accumulator; its quick_wins are the first    *)
(* three fixed entries, none of them a recommendation of the rule table.    *)
C21_TapeplayersVariant ==
    (Returned /\ call = "_analyze_tapeplayers_page") =>
        LET rest == From(recommendations, Len(FixedRecs) + 1)
        IN  /\ Len(recommendations) >= Len(FixedRecs)
            /\ SubSeq(recommendations, 1, Len(FixedRecs)) = FixedRecs
            /\ \A i \in 1..Len(FixedRecs) : recommendations[i].priority = "HIGH"
            /\ rest = <<Rec1, Rec2, Rec3, Rec4, Rec6, Rec7, Rec10, Rec11, Rec12, Rec13>>
            /\ ModuloDate(_generate_report(rest, 0)) = ModuloDate(analyze_page_result(EmptyDict, 0))
            /\ report = _generate_report(recommendations, report.analysis_date)
            /\ Len(report.quick_wins) = 3
            /\ \A k \in 1..3 :
                   /\ report.quick_wins[k].title = FixedRecs[k].title
                   /\ report.quick_wins[k].description = FixedRecs[k].description
                   /\ \A n \in 1..14 : report.quick_wins[k].title # RuleRec[n].title

\* _analyze_tapeplayers_page has returned its 17 recommendations on an
\* instance that analyze_page used before
C21_Witness ==
    /\ Returned
    /\ call = "_analyze_tapeplayers_page"
    /\ Len(earlier) > 0
    /\ earlier[Len(earlier)].call = "analyze_page"
    /\ report.total_recommendations = 17
    /\ DictIs(report.priority_distribution, [High |-> 12, Medium |-> 4, Low |-> 1])
    /\ report.quick_wins[1].title = SpeedRec1.title

-----------------------------------------------------------------------------
(* Frame *)

\* a call is under way: entered and neither returned nor raised
Running ==
    pc \in DOMAIN RulesOf \cup {"report"}

-----------------------------------------------------------------------------
(* Non-interference *)

\* the keywords the rule methods look for in the lower-cased content
Keywords ==
    {S_warranty, S_ssl, S_secure, S_trusted, S_video, S_regular_price,
     S_customer_reviews, S_sold_out, S_add_to_cart, S_specifications, S_faq}

\* the truth value of each keyword test on the content of pd
KeywordTests(pd) ==
    [kw \in Keywords |-> In(kw, lower(Get(pd, "content", <<>>)))]

\* the keys, other than content, that the rule methods read
CountedKeys ==
    {"image_count", "cta_count", "load_time", "mobile_optimized", "benefits"}

\* p and q hold the same values at the counted keys and their contents pass
\* the same keyword tests
AgreeOnUsed(p, q) ==
    /\ \A k \in CountedKeys : Get(p, k, Defaults[k]) = Get(q, k, Defaults[k])
    /\ KeywordTests(p) = KeywordTests(q)

(* C25: non-interference of unused fields.  Two analyze_page calls whose    *)
(* inputs hold the same image_count, cta_count, load_time, mobile_optimized *)
(* and benefits, and whose contents give the same truth values to the 11    *)
(* keyword tests (equal contents in particular), return the same report,    *)
(* analysis_date aside, whatever url, title, price and extra keys the       *)
(* inputs have.                                                             *)
C25_NonInterference ==
    (Returned /\ other.pc = "done" /\ AgreeOnUsed(page_data, other.page_data)) =>
        ModuloDate(report) = ModuloDate(other.report)

\* both calls have returned equal reports for inputs with different url, title
\* and price, different keys and different texts
C25_Witness ==
    /\ Returned
    /\ other.pc = "done"
    /\ AgreeOnUsed(page_data, other.page_data)
    /\ "currency" \in DOMAIN page_data
    /\ "price" \in DOMAIN other.page_data /\ other.page_data.price > 0
    /\ "url" \in DOMAIN other.page_data /\ other.page_data.url # ""
    /\ page_data.content # other.page_data.content
    /\ Len(page_data.content) # Len(other.page_data.content)
    /\ ModuloDate(report) = ModuloDate(other.report)
    /\ report.total_recommendations > 0

\* both calls have returned different reports: their inputs differ in a
\* keyword test only
C25_WitnessSensitive ==
    /\ Returned
    /\ other.pc = "done"
    /\ \A k \in CountedKeys : page_data[k] = other.page_data[k]
    /\ KeywordTests(page_data) # KeywordTests(other.page_data)
    /\ ModuloDate(report) # ModuloDate(other.report)

-----------------------------------------------------------------------------
(* The command-line programs *)

\* the program has ended, at its last statement or with an exception
Ended ==
    cli.pc \in {"finished", "raised"}

(* C28: the command-line programs render every report.  When demo.main() or *)
(* the __main__ block has ended on the report of analyze_tapeplayers_page() *)
(* or on any report with a non-empty quick_wins, it has ended at its final  *)
(* print and not with an exception: every access it makes on a quick_wins   *)
(* entry is valid for the dict _generate_report builds.                     *)
C28_CliRendersEveryReport ==
    (Ended /\ (page_data = DemoPage \/ report.quick_wins # <<>>)) =>
        /\ cli.pc = "finished"
        /\ cli.exception = None

\* the part the code keeps: a program that ended with an exception was
\* rendering a non-empty quick_wins and raised AttributeError there, and a
\* report without quick wins is rendered to the end
C28_RaisesAtQuickWins ==
    /\ cli.pc = "raised" =>
           /\ report.quick_wins # <<>>
           /\ cli.exception = "AttributeError"
           /\ cli.printed = <<"summary", "priority_distribution">>
    /\ (Ended /\ report.quick_wins = <<>>) => cli.pc = "finished"

\* main() of demo.py has ended with AttributeError on the demo page's report
C28_DemoRaises ==
    /\ cli.program = "demo"
    /\ page_data = DemoPage
    /\ cli.pc = "raised"
    /\ cli.exception = "AttributeError"

\* the __main__ block has rendered a report without quick wins to its end
C28_MainFinishes ==
    /\ cli.program = "main"
    /\ cli.pc = "finished"
    /\ report.quick_wins = <<>>
    /\ Len(cli.printed) = 8

====
